---- MODULE Spec2Model ----
(***************************************************************************)
(* JustCode grading pipeline: JavaExecutor / PythonExecutor.               *)
(*                                                                         *)
(* Text (stdout, stderr, error messages) is a sequence of tokens.  A token *)
(* is a record [kind, s, line]:                                            *)
(*   "sep"      the sentinel RESULT_SEPARATOR                              *)
(*   "ws"       whitespace (what String.trim removes at both ends)         *)
(*   "text"     any other text s; it is not JSON                           *)
(*   "json"     a complete JSON document, s names it (JsonDocs)            *)
(*   "pyfile"   the text  File "<s>", line <line>                          *)
(*   "pyerr"    the text  <s>: <message>   (s an exception class name)     *)
(*   "nl"       a line terminator                                          *)
(*   "colon"    the character ':'                                          *)
(*   "num"      a run of decimal digits, line is its value                 *)
(*   "jfile"    text s that ends in ".java"                                *)
(*   "kw"       the word s, "error" or "warning"                           *)
(*   "label"    the text  [Testcase <line>]                                *)
(***************************************************************************)
EXTENDS Integers, Sequences, FiniteSets, TLC

\* ------------------------------------------------------------------ bounds
\* longest testcase list
MaxTests == 5
\* executeCode calls running side by side, and the length of their testcase
\* lists (a call that leaves its try block early stands for a shorter list)
MaxSubs == 2
MaxConcTests == 2
\* longest parameter list of a problem's metadata
MaxParams == 2
\* longest string and longest array handed to the generated encoder
MaxStr == 2
MaxArr == 2
\* longest stderr text of javac handed to the diagnostics parser, in lines
MaxLines == 3
\* longest stdout of a single runTestcase call, in tokens
MaxOut == 3

\* ------------------------------------------------------- program constants
RESULT_SEPARATOR == "===RESULT_JSON_START==="
TESTCASE_TIMEOUT_MS == 1000
COMPILE_TIMEOUT_MS == 10000
\* the literal 3 of `!showHiddenInputs && i >= 3`
HiddenThreshold == 3

VARIABLES
    lang,               \* "java" | "python3": which executor grades
    showHiddenInputs,   \* executeCode's flag (false = redaction requested)
    testcases,          \* executeCode's testcases argument
    pc,                 \* position inside executeCode
    workspace,          \* "none" | "exists" | "removed": the temp directory
    files,              \* names of the files inside the workspace
    i,                  \* loop variable (0-based)
    results,            \* const results: TestcaseResult[]
    debugOutputs,       \* const debugOutputs: string[]
    passed,             \* let passed
    firstFailure,       \* let firstFailure
    firstHiddenFailure, \* let firstHiddenFailure
    pending,            \* completion of the try block, held while finally runs
    report,             \* what the caller of executeCode receives
    verdicts,           \* history: every result runTestcase returned, in order
    debugTexts,         \* history: the debugOutput runTestcase returned, per testcase
    compileRuns,        \* history: javac commands started
    harnessRuns,        \* history: harness commands started
    cleanupCalls,       \* history: cleanupWorkspace calls
    javac,              \* history: "none" | "ok" | "failed", by javac's exit code
    rmFailed,           \* history: fs.rm threw inside cleanupWorkspace
    call,               \* one runTestcase call on its own: arguments and result
    request,            \* req of POST /api/run or /api/submit: route and body
    response,           \* res: the HTTP status and body the handler sent
    ioFailed,           \* history: the fs call of executeCode that threw
    subs,               \* concurrent executeCode calls: position and locals
    disk,               \* the directories under <cwd>/temp and their files
    shell,              \* the platform's shell that exec() spawns
    orphans,            \* processes left running by resolved executeCommand calls
    harness,            \* one harness: generated, written, compiled, run once
    codec,              \* one value through the generated Runner's encoder and decoder
    diag,               \* one stderr text of javac and the diagnostics parsed from it
    panel               \* ResultPanel: what it rendered of the answer

vars == <<lang, showHiddenInputs, testcases, pc, workspace, files, i, results,
          debugOutputs, passed, firstFailure, firstHiddenFailure, pending,
          report, verdicts, debugTexts, compileRuns, harnessRuns, cleanupCalls, javac,
          rmFailed, call, request, response, ioFailed, subs, disk, shell,
          orphans, harness, codec, diag, panel>>

\* what the executeCode calls running side by side share
concurrent == <<subs, disk>>

\* what only the run of one generated harness changes
generated == <<harness, codec, diag, panel>>

\* ------------------------------------------------------------------- text
Tok(kind, s, line) == [kind |-> kind, s |-> s, line |-> line]

Sep == Tok("sep", RESULT_SEPARATOR, 0)
Ws == Tok("ws", " ", 0)
Txt(s) == Tok("text", s, 0)
Nl == Tok("nl", "\n", 0)
\* the text [Testcase k]
Label(k) == Tok("label", "[Testcase]", k)
Colon == Tok("colon", ":", 0)
Num(n) == Tok("num", "", n)
JavaFile(path) == Tok("jfile", path, 0)
Severity(word) == Tok("kw", word, 0)

\* \s
IsSpace(tok) == tok.kind \in {"ws", "nl"}
Json(s) == Tok("json", s, 0)

RECURSIVE TrimStart(_)
TrimStart(t) ==
    IF t # <<>> /\ IsSpace(Head(t)) THEN TrimStart(Tail(t)) ELSE t

RECURSIVE TrimEnd(_)
TrimEnd(t) ==
    IF t # <<>> /\ IsSpace(t[Len(t)])
    THEN TrimEnd(SubSeq(t, 1, Len(t) - 1))
    ELSE t

\* String.prototype.trim
Trim(t) == TrimEnd(TrimStart(t))

\* variant: lastIndexOf(RESULT_SEPARATOR)
IndexOfSeparator_Last(t) ==
    IF \E k \in 1..Len(t) : t[k].kind = "sep"
    THEN CHOOSE k \in 1..Len(t) :
            /\ t[k].kind = "sep"
            /\ \A j \in (k + 1)..Len(t) : t[j].kind # "sep"
    ELSE 0

\* String.prototype.indexOf(RESULT_SEPARATOR), 1-based; 0 stands for -1
IndexOfSeparator(t) ==
    IF \E k \in 1..Len(t) : t[k].kind = "sep"
    THEN CHOOSE k \in 1..Len(t) :
            /\ t[k].kind = "sep"
            /\ \A j \in 1..(k - 1) : t[j].kind # "sep"
    ELSE 0

\* String.prototype.includes for the three needles executeCode looks for
IncludesWord(t, word) ==
    \E k \in 1..Len(t) : t[k].kind \in {"pyerr", "text"} /\ t[k].s = word

IncludesSolutionFile(t) ==
    \E k \in 1..Len(t) : t[k].kind = "pyfile" /\ t[k].s = "solution.py"

\* path.basename
Basename(p) ==
    CASE p = "./Solution.java" -> "Solution.java"
      [] p = "/temp/ws/solution.py" -> "solution.py"
      [] p = "/temp/ws/runner.py" -> "runner.py"
      [] OTHER -> p

\* ------------------------------------- the generated Runner's JSON codec
\* The text the Runner's helpers print and read is a sequence of characters
\* (strings of length 1).  A value, parsed or typed, is a record: t is its
\* kind, n its number (a boolean is 1 / 0, a double's integer part), s its
\* characters (a double's decimal text) and items its elements.
JV(t, n, s, items) == [t |-> t, n |-> n, s |-> s, items |-> items]

JInt(n) == JV("int", n, <<>>, <<>>)
JBool(b) == JV("bool", IF b THEN 1 ELSE 0, <<>>, <<>>)
JDouble(n, text) == JV("double", n, text, <<>>)
JStr(s) == JV("str", 0, s, <<>>)
JChar(c) == JV("char", 0, <<c>>, <<>>)
JList(items) == JV("list", 0, <<>>, items)
JNull == JV("null", 0, <<>>, <<>>)

Quote == "\""
Backslash == "\\"
DigitChars == <<"0", "1", "2", "3", "4", "5", "6", "7", "8", "9">>

IsDigit(c) == \E d \in 1..Len(DigitChars) : DigitChars[d] = c

DigitValue(c) == (CHOOSE d \in 1..Len(DigitChars) : DigitChars[d] = c) - 1

\* Integer.toString / Long.toString
RECURSIVE Digits(_)
Digits(n) ==
    IF n < 10 THEN <<DigitChars[n + 1]>>
    ELSE Append(Digits(n \div 10), DigitChars[(n % 10) + 1])

IntText(n) == IF n < 0 THEN <<"-">> \o Digits(0 - n) ELSE Digits(n)

\* what a helper call or a cast returns: a value, or it threw
Returned(v) == [threw |-> FALSE, v |-> v, end |-> 0]
Thrown == [threw |-> TRUE, v |-> JNull, end |-> 0]
At(v, end) == [threw |-> FALSE, v |-> v, end |-> end]

\* Long.parseLong: an optional sign and at least one digit
RECURSIVE DigitsValue(_)
DigitsValue(t) ==
    IF t = <<>> THEN 0
    ELSE 10 * DigitsValue(SubSeq(t, 1, Len(t) - 1)) + DigitValue(t[Len(t)])

parseLong(t) ==
    LET signed == Len(t) >= 1 /\ t[1] \in {"-", "+"}
        body == IF signed THEN Tail(t) ELSE t
    IN IF body = <<>> \/ \E k \in 1..Len(body) : ~IsDigit(body[k])
       THEN Thrown
       ELSE Returned(JInt(IF signed /\ t[1] = "-" THEN 0 - DigitsValue(body)
                          ELSE DigitsValue(body)))

\* Double.parseDouble on <digits>.<digits>, the decimal texts Double.toString
\* prints for the doubles used here; the value is held by that text
parseDouble(t) ==
    LET dots == {k \in 1..Len(t) : t[k] = "."}
    IN IF Cardinality(dots) # 1 THEN Thrown
       ELSE LET d == CHOOSE k \in dots : TRUE
                whole == parseLong(SubSeq(t, 1, d - 1))
                fraction == SubSeq(t, d + 1, Len(t))
            IN IF whole.threw \/ fraction = <<>>
                  \/ \E k \in 1..Len(fraction) : ~IsDigit(fraction[k])
               THEN Thrown
               ELSE Returned(JDouble(whole.v.n, t))

\* Character.isWhitespace
IsWhitespace(c) == c = " "

\* while (i < json.length() && Character.isWhitespace(json.charAt(i))) i++
RECURSIVE SkipWhitespace(_, _)
SkipWhitespace(json, pos) ==
    IF pos <= Len(json) /\ IsWhitespace(json[pos])
    THEN SkipWhitespace(json, pos + 1)
    ELSE pos

\* the same loop with || json.charAt(i) == ','
RECURSIVE SkipComma(_, _)
SkipComma(json, pos) ==
    IF pos <= Len(json) /\ (IsWhitespace(json[pos]) \/ json[pos] = ",")
    THEN SkipComma(json, pos + 1)
    ELSE pos

\* the loop of the string branch, at position i with sb collected so far:
\* after a backslash the next character is taken as it stands
RECURSIVE ScanString(_, _, _)
ScanString(json, pos, sb) ==
    IF pos > Len(json) THEN At(JStr(sb), pos + 1)
    ELSE IF json[pos] = Backslash
         THEN IF pos + 1 > Len(json) THEN Thrown
              ELSE ScanString(json, pos + 2, Append(sb, json[pos + 1]))
         ELSE IF json[pos] = Quote THEN At(JStr(sb), pos + 1)
              ELSE ScanString(json, pos + 1, Append(sb, json[pos]))

NumberChars == {"-", ".", "e", "E", "+"}

\* the loop of the number branch: the first position that ends the number
RECURSIVE ScanNumber(_, _)
ScanNumber(json, pos) ==
    IF pos <= Len(json) /\ (IsDigit(json[pos]) \/ json[pos] \in NumberChars)
    THEN ScanNumber(json, pos + 1)
    ELSE pos

StartsWith(json, word, start) ==
    /\ start + Len(word) - 1 <= Len(json)
    /\ SubSeq(json, start, start + Len(word) - 1) = word

\* Runner.parseJsonValue(json, start), positions counted from 1.  The branch
\* for '{' is left out: no encoder below prints an object.
RECURSIVE parseJsonValue(_, _), ScanArray(_, _, _)
parseJsonValue(json, start) ==
    IF start > Len(json) THEN Thrown
    ELSE LET c == json[start]
         IN CASE c = Quote -> ScanString(json, start + 1, <<>>)
              [] c = "[" -> ScanArray(json, start + 1, <<>>)
              [] c \in {"t", "f"} ->
                   IF StartsWith(json, <<"t", "r", "u", "e">>, start)
                   THEN At(JBool(TRUE), start + 4)
                   ELSE At(JBool(FALSE), start + 5)
              [] c = "n" -> At(JNull, start + 4)
              [] OTHER ->
                   LET pos == ScanNumber(json, start)
                       numStr == SubSeq(json, start, pos - 1)
                       number ==
                           IF \E k \in 1..Len(numStr) :
                                 numStr[k] \in {".", "e", "E"}
                           THEN parseDouble(numStr)
                           ELSE parseLong(numStr)
                   IN IF number.threw THEN Thrown ELSE At(number.v, pos)

\* the loop of the array branch, at position i with list collected so far
ScanArray(json, pos, list) ==
    IF pos > Len(json) THEN At(JList(list), pos)
    ELSE LET j == SkipWhitespace(json, pos)
         IN IF j > Len(json) THEN Thrown
            ELSE IF json[j] = "]" THEN At(JList(list), j + 1)
                 ELSE LET element == parseJsonValue(json, j)
                      IN IF element.threw THEN Thrown
                         ELSE ScanArray(json, SkipComma(json, element.end),
                                        Append(list, element.v))

\* result.replace("\\", "\\\\").replace("\"", "\\\""): two passes
RECURSIVE Replace(_, _, _)
Replace(s, c, by) ==
    IF s = <<>> THEN <<>>
    ELSE (IF Head(s) = c THEN by ELSE <<Head(s)>>) \o Replace(Tail(s), c, by)

Quoted(s) ==
    <<Quote>>
    \o Replace(Replace(s, Backslash, <<Backslash, Backslash>>),
               Quote, <<Backslash, Quote>>)
    \o <<Quote>>

\* "\"" + result + "\"" of a char, and of charArrayToJson's elements
QuotedChar(s) == <<Quote>> \o s \o <<Quote>>

\* "[" + the elements' texts with "," between them + "]"; "[]" when empty
RECURSIVE Joined(_)
Joined(texts) ==
    IF Len(texts) = 1 THEN texts[1]
    ELSE texts[1] \o <<",">> \o Joined(Tail(texts))

Bracketed(texts) ==
    IF texts = <<>> THEN <<"[", "]">> ELSE <<"[">> \o Joined(texts) \o <<"]">>

\* String.valueOf / StringBuilder.append of a primitive or a boxed value
ValueOf(v) ==
    CASE v.t = "int" -> IntText(v.n)
      [] v.t = "bool" -> IF v.n = 1 THEN <<"t", "r", "u", "e">>
                         ELSE <<"f", "a", "l", "s", "e">>
      [] v.t = "double" -> v.s
      [] v.t \in {"str", "char"} -> v.s
      [] OTHER -> <<"n", "u", "l", "l">>

\* String.valueOf of an array of javaType: Object.toString, the type's
\* signature and the identity hash, as in [[[I@1b6d3586
ObjectToString(javaType) ==
    IF javaType = "int[][][]" THEN <<"[", "[", "[", "I", "@", "1">>
    ELSE <<"L", "@", "1">>

\* the value of the expression getSerializeCode emitted, and of the helpers
\* it calls, for result = v
RECURSIVE Serialize(_, _, _)
Serialize(expr, javaType, v) ==
    LET each(inner) == [k \in 1..Len(v.items) |->
                           Serialize(inner, javaType, v.items[k])]
    IN CASE expr = "String.valueOf" ->
              IF v.t = "list" THEN ObjectToString(javaType) ELSE ValueOf(v)
         [] expr = "quote" -> Quoted(v.s)
         [] expr = "quoteChar" -> QuotedChar(v.s)
         [] expr \in {"arrayToJson", "boolArrayToJson"} ->
              Bracketed(each("String.valueOf"))
         [] expr = "stringArrayToJson" -> Bracketed(each("quote"))
         [] expr = "charArrayToJson" -> Bracketed(each("quoteChar"))
         [] expr = "array2DToJson" -> Bracketed(each("arrayToJson"))
         [] expr = "char2DArrayToJson" -> Bracketed(each("charArrayToJson"))
         [] expr = "string2DArrayToJson" ->
              Bracketed(each("stringArrayToJson"))
         [] expr = "listItem" ->
              IF v.t = "str" THEN Quoted(v.s) ELSE ValueOf(v)
         [] expr = "listToJson" -> Bracketed(each("listItem"))
         [] OTHER -> Bracketed(each("listToJson"))

\* the helper a converter applies to every element of the list it is given
ElementDecode(decode) ==
    CASE decode \in {"toIntArray", "toIntegerList"} -> "intValue"
      [] decode = "toLongArray" -> "longValue"
      [] decode = "toDoubleArray" -> "doubleValue"
      [] decode \in {"toBooleanArray", "toBooleanList"} -> "castBoolean"
      [] decode \in {"toStringArray", "toStringList"} -> "cast"
      [] decode = "toCharArray" -> "charAt0"
      [] decode = "toInt2DArray" -> "toIntArray"
      [] decode = "toChar2DArray" -> "toCharArray"
      [] decode = "toString2DArray" -> "toStringArray"
      [] decode = "toIntegerListList" -> "toIntegerList"
      [] OTHER -> "toStringList"

\* the conversion getParseCode emitted, and the converters it calls, applied
\* to the parsed value p: a cast of the wrong class, a null that is
\* dereferenced and charAt(0) of "" throw
RECURSIVE Convert(_, _)
Convert(decode, p) ==
    CASE decode = "none" -> Returned(p)
      [] decode \in {"intValue", "longValue"} ->
           IF p.t \in {"int", "double"} THEN Returned(JInt(p.n)) ELSE Thrown
      [] decode = "doubleValue" ->
           CASE p.t = "double" -> Returned(p)
             [] p.t = "int" ->
                  Returned(JDouble(p.n, IntText(p.n) \o <<".", "0">>))
             [] OTHER -> Thrown
      [] decode = "castBoolean" ->
           IF p.t = "bool" THEN Returned(p) ELSE Thrown
      [] decode = "cast" ->
           IF p.t \in {"str", "null"} THEN Returned(p) ELSE Thrown
      [] decode = "charAt0" ->
           IF p.t = "str" /\ p.s # <<>> THEN Returned(JChar(p.s[1]))
           ELSE Thrown
      [] OTHER ->
           IF p.t # "list" THEN Thrown
           ELSE LET each == [k \in 1..Len(p.items) |->
                                Convert(ElementDecode(decode), p.items[k])]
                IN IF \E k \in 1..Len(each) : each[k].threw THEN Thrown
                   ELSE Returned(JList([k \in 1..Len(each) |-> each[k].v]))

\* ------------------------------------------------------- JSON (node built-in)
\* The JSON documents a run can print, by name, and the JS value of
\* JSON.parse(doc).result: "res:A" is {"result": A}; "obj" is {}, "arr" is
\* [1,2], "num" is 7, "str" is "[1,2]" and "bool" is true (no result member:
\* undefined); "null" is null (reading .result throws).
\* variant: the first document of the text is taken, what follows is ignored
JsonParse_FirstDocument(t) ==
    LET core == TrimStart(t)
    IN IF Len(core) >= 1 /\ core[1].kind = "json"
       THEN [ok |-> TRUE, doc |-> core[1].s]
       ELSE [ok |-> FALSE, doc |-> ""]

\* JSON.parse: only surrounding whitespace is allowed around one document
JsonParse(t) ==
    LET core == Trim(t)
    IN IF Len(core) = 1 /\ core[1].kind = "json"
       THEN [ok |-> TRUE, doc |-> core[1].s]
       ELSE [ok |-> FALSE, doc |-> ""]

\* the JS values an expected output or a result can be, by name
ValueNames ==
    {"A", "B", "[]", "[1]", "[[1]]", "[[1],[2]]", "[[1,2]]", "[[1,2],[]]",
     "1", "s1", "[s1]", "[s1,2]", "[s1,s2]", "true", "strue", "null"}

\* the value a name stands for: "A" is [1,2], "B" is [2,1], "s1" is the
\* string "1", "[s1,2]" is the array ["1,2"], "strue" is the string "true"
JsValue(v) ==
    LET one == JInt(1)
        two == JInt(2)
        str(c) == JStr(c)
    IN CASE v = "A" -> JList(<<one, two>>)
         [] v = "B" -> JList(<<two, one>>)
         [] v = "[]" -> JList(<<>>)
         [] v = "[1]" -> JList(<<one>>)
         [] v = "[[1]]" -> JList(<<JList(<<one>>)>>)
         [] v = "[[1],[2]]" -> JList(<<JList(<<one>>), JList(<<two>>)>>)
         [] v = "[[1,2]]" -> JList(<<JList(<<one, two>>)>>)
         [] v = "[[1,2],[]]" -> JList(<<JList(<<one, two>>), JList(<<>>)>>)
         [] v = "1" -> one
         [] v = "s1" -> str(<<"1">>)
         [] v = "[s1]" -> JList(<<str(<<"1">>)>>)
         [] v = "[s1,2]" -> JList(<<str(<<"1", ",", "2">>)>>)
         [] v = "[s1,s2]" -> JList(<<str(<<"1">>), str(<<"2">>)>>)
         [] v = "true" -> JBool(TRUE)
         [] v = "strue" -> str(<<"t", "r", "u", "e">>)
         [] OTHER -> JNull

\* the documents that parse to a value without a result member
BareDocuments == {"obj", "arr", "num", "str", "bool"}

\* variant: reading the result member of a value that has none throws
ResultMember_MissingThrows(doc) ==
    CASE doc = "null" -> "throws"
      [] \E v \in ValueNames : doc = "res:" \o v ->
           CHOOSE v \in ValueNames : doc = "res:" \o v
      [] OTHER -> "throws"

\* parsed.result; "throws" when parsed is null
ResultMember(doc) ==
    CASE doc = "null" -> "throws"
      [] \E v \in ValueNames : doc = "res:" \o v ->
           CHOOSE v \in ValueNames : doc = "res:" \o v
      [] OTHER -> "undefined"

\* variant: String(value), which joins the elements of an array with commas
\* at every depth and prints a string without quotes
RECURSIVE ToStringText(_)
ToStringText(jv) ==
    CASE jv.t = "list" ->
           IF jv.items = <<>> THEN <<>>
           ELSE Joined([k \in 1..Len(jv.items) |->
                           IF jv.items[k].t = "null" THEN <<>>
                           ELSE ToStringText(jv.items[k])])
      [] OTHER -> ValueOf(jv)

\* the text JSON.stringify gives for a JSON value
RECURSIVE JsText(_)
JsText(jv) ==
    CASE jv.t = "list" ->
           Bracketed([k \in 1..Len(jv.items) |-> JsText(jv.items[k])])
      [] jv.t = "str" -> Quoted(jv.s)
      [] OTHER -> ValueOf(jv)

\* JSON.stringify of a value: a string for a JSON value, undefined for undefined
JsonStringify(v) ==
    IF v = "undefined" THEN [defined |-> FALSE, text |-> <<>>]
    ELSE [defined |-> TRUE, text |-> JsText(JsValue(v))]

\* ------------------------------------------------------------- subprocess
\* How the child of exec() ended: "exit" with code; "timeout" (node killed it
\* when options.timeout expired: error.killed, signal SIGTERM); "maxbuf" (node
\* killed it when its output exceeded maxBuffer: the error is the RangeError
\* ERR_CHILD_PROCESS_STDIO_MAXBUFFER, which has no killed and no signal
\* member, and stdout / stderr are what was captured up to the cap);
\* "sigterm" (something else sent SIGTERM, the program itself included:
\* error.signal = 'SIGTERM', error.killed false).
Proc(term, code, out, err, elapsed) ==
    [term |-> term, code |-> code, stdout |-> out, stderr |-> err,
     elapsed |-> elapsed]

\* exec() runs the command line in a shell (/bin/sh -c, cmd.exe /c), and
\* node's kill on timeout or maxBuffer signals that child alone.  "execs": the
\* shell replaced itself by the command, which is then the child (bash, dash
\* 0.5.11+); "forks": the command is a child of the shell (cmd.exe, older
\* dash, busybox) and the signal does not reach it.
Shells == {"execs", "forks"}

\* processes still running when the callback of exec() runs: the child has
\* exited by then; the command outlives a shell that was killed and had
\* forked it
LeftRunning(p, sh) == IF p.term # "exit" /\ sh = "forks" THEN 1 ELSE 0

ErrorKilled(p) == p.term = "timeout"

ErrorSignal(p) ==
    IF p.term \in {"timeout", "sigterm"} THEN "SIGTERM" ELSE "null"

\* error.code when maxBuffer was exceeded: the string
\* 'ERR_CHILD_PROCESS_STDIO_MAXBUFFER'.  The callers compare exitCode with -1
\* and 0 only; a number no process exits with stands for the string.
MaxBufferErrorCode == 1000

\* error.code: the exit code of the child, or the name of the node error
ErrorCode(p) == IF p.term = "maxbuf" THEN MaxBufferErrorCode ELSE p.code

TimeLimitText == <<Txt("Time Limit Exceeded")>>

executeCommand(p) ==
    IF p.term # "exit" \/ p.code # 0
    THEN IF ErrorKilled(p) \/ ErrorSignal(p) = "SIGTERM"
         THEN [stdout |-> <<>>, stderr |-> TimeLimitText, exitCode |-> -1]
         ELSE [stdout |-> p.stdout, stderr |-> p.stderr,
               exitCode |-> IF ErrorCode(p) # 0 THEN ErrorCode(p) ELSE 1]
    ELSE [stdout |-> p.stdout, stderr |-> p.stderr, exitCode |-> 0]

\* ------------------------------------------------------------- diagnostics
CompilationError(file, line, message, severity) ==
    [file |-> file, line |-> line, column |-> 1, message |-> message,
     severity |-> severity]

RECURSIVE SkipSpace(_, _)
\* \s* from position p: the position after the longest run of whitespace,
\* line terminators included
SkipSpace(t, p) ==
    IF p <= Len(t) /\ IsSpace(t[p]) THEN SkipSpace(t, p + 1) ELSE p

RECURSIVE EndOfLine(_, _)
\* the last position of the run of `.` (no line terminator) that starts at p
EndOfLine(t, p) ==
    IF p <= Len(t) /\ t[p].kind # "nl" THEN EndOfLine(t, p + 1) ELSE p - 1

\* ^ under the m flag
LineStart(t, p) == p = 1 \/ t[p - 1].kind = "nl"

\* \s*(.+)$ from position r: where (.+) starts, 0 when there is no match.
\* \s* is greedy and gives characters back until (.+) finds one that is not
\* a line terminator.
MessageStart(t, r) ==
    LET w == SkipSpace(t, r)
        given == {k \in r..Len(t) : t[k].kind = "ws"}
    IN IF w <= Len(t) THEN w
       ELSE IF given # {} THEN CHOOSE k \in given : \A j \in given : j <= k
       ELSE 0

NoMatch == [matched |-> FALSE, line |-> 0, severity |-> "", from |-> 0, to |-> 0]

\* :(\d+):\s*(error|warning):\s*(.+)$ after a file part that ends at f
MatchAfterFile(t, f) ==
    IF /\ f + 3 <= Len(t)
       /\ t[f + 1].kind = "colon"
       /\ t[f + 2].kind = "num"
       /\ t[f + 3].kind = "colon"
    THEN LET q == SkipSpace(t, f + 4)
         IN IF q + 1 <= Len(t) /\ t[q].kind = "kw" /\ t[q + 1].kind = "colon"
            THEN LET w == MessageStart(t, q + 2)
                 IN IF w # 0
                    THEN [matched |-> TRUE, line |-> t[f + 2].line,
                          severity |-> t[q].s, from |-> w,
                          to |-> EndOfLine(t, w)]
                    ELSE NoMatch
            ELSE NoMatch
    ELSE NoMatch

\* ^(.+?\.java) from the line start p: the ends of the file part for which the
\* rest of the expression matches; the lazy quantifier takes the first
FileEnds(t, p) ==
    {f \in p..EndOfLine(t, p) :
        t[f].kind = "jfile" /\ MatchAfterFile(t, f).matched}

RECURSIVE TextOf(_)
TextOf(t) == IF t = <<>> THEN "" ELSE Head(t).s \o TextOf(Tail(t))

\* path.basename(file): only a "jfile" token holds a directory part
FileName(t) ==
    IF Basename(t[Len(t)].s) # t[Len(t)].s THEN Basename(t[Len(t)].s)
    ELSE TextOf(t)

RECURSIVE JavaMatches(_, _)
\* the while loop over errorRegex.exec(stderr), lastIndex = p - 1
JavaMatches(t, p) ==
    IF p > Len(t) THEN <<>>
    ELSE IF LineStart(t, p) /\ FileEnds(t, p) # {}
    THEN LET f == CHOOSE f \in FileEnds(t, p) :
                      \A g \in FileEnds(t, p) : f <= g
             m == MatchAfterFile(t, f)
         IN <<CompilationError(FileName(SubSeq(t, p, f)), m.line,
                               Trim(SubSeq(t, m.from, m.to)), m.severity)>>
            \o JavaMatches(t, m.to + 1)
    ELSE JavaMatches(t, p + 1)

parseJavaCompilationErrors(stderr) == JavaMatches(stderr, 1)

PyErrorKeywords == {"SyntaxError", "IndentationError", "NameError", "TypeError"}

\* stderr.match(errorMsgRegex): the first keyword line, if any
PyErrorMessage(stderr) ==
    IF \E k \in 1..Len(stderr) :
          stderr[k].kind = "pyerr" /\ stderr[k].s \in PyErrorKeywords
    THEN (LET k == CHOOSE k \in 1..Len(stderr) :
                      /\ stderr[k].kind = "pyerr"
                      /\ stderr[k].s \in PyErrorKeywords
                      /\ \A j \in 1..(k - 1) :
                            ~(stderr[j].kind = "pyerr"
                              /\ stderr[j].s \in PyErrorKeywords)
          IN stderr[k].s)
    ELSE "Syntax error"

RECURSIVE PyFileLineMatches(_, _)
PyFileLineMatches(rest, whole) ==
    IF rest = <<>> THEN <<>>
    ELSE LET l == Head(rest)
             more == PyFileLineMatches(Tail(rest), whole)
         IN IF l.kind = "pyfile"
            THEN <<CompilationError(Basename(l.s), l.line,
                       PyErrorMessage(whole), "error")>> \o more
            ELSE more

parsePythonSyntaxErrors(stderr) == PyFileLineMatches(stderr, stderr)

\* ---------------------------------------------------------------- compile
\* variant: only a positive exit code counts as a failed compile
compile_PositiveExitOnly(p) ==
    LET result == executeCommand(p)
    IN IF result.exitCode > 0
       THEN [success |-> FALSE,
             error |-> IF result.stderr # <<>> THEN result.stderr
                       ELSE <<Txt("Compilation failed")>>,
             compilationErrors |-> parseJavaCompilationErrors(result.stderr)]
       ELSE [success |-> TRUE, error |-> <<>>, compilationErrors |-> <<>>]

compile(p) ==
    LET result == executeCommand(p)
    IN IF result.exitCode # 0
       THEN [success |-> FALSE,
             error |-> IF result.stderr # <<>> THEN result.stderr
                       ELSE <<Txt("Compilation failed")>>,
             compilationErrors |-> parseJavaCompilationErrors(result.stderr)]
       ELSE [success |-> TRUE, error |-> <<>>, compilationErrors |-> <<>>]

\* ------------------------------------------------------------ runTestcase
\* A TestcaseResult. keys names the optional members the object literal has.
TestcaseResult(status, tc, keys, actual, errorMessage, executionTime) ==
    [index |-> 0, status |-> status, keys |-> keys, input |-> tc.input,
     expected |-> tc.output, actual |-> actual, errorMessage |-> errorMessage,
     executionTime |-> executionTime]

\* variant: String(expected) === String(actual)
compareOutputs_ToString(expected, actual) ==
    /\ expected = "undefined" <=> actual = "undefined"
    /\ expected # "undefined"
          => ToStringText(JsValue(expected)) = ToStringText(JsValue(actual))

\* JSON.stringify(expected) === JSON.stringify(actual)
compareOutputs(expected, actual) ==
    JsonStringify(expected) = JsonStringify(actual)

\* the split of stdout at the separator
DebugOutputOf(stdout) ==
    LET separatorIndex == IndexOfSeparator(stdout)
    IN IF separatorIndex # 0
       THEN Trim(SubSeq(stdout, 1, separatorIndex - 1))
       ELSE <<>>

\* variant: without a separator there is no result text
JsonOutputOf_SentinelRequired(stdout) ==
    LET separatorIndex == IndexOfSeparator(stdout)
    IN IF separatorIndex # 0
       THEN Trim(SubSeq(stdout, separatorIndex + 1, Len(stdout)))
       ELSE <<>>

JsonOutputOf(stdout) ==
    LET separatorIndex == IndexOfSeparator(stdout)
    IN IF separatorIndex # 0
       THEN Trim(SubSeq(stdout, separatorIndex + 1, Len(stdout)))
       ELSE stdout

\* variant: the budget itself is still within time
IsTimeout_Strict(exitCode, executionTime) ==
    exitCode = -1 \/ executionTime > TESTCASE_TIMEOUT_MS

IsTimeout(exitCode, executionTime) ==
    exitCode = -1 \/ executionTime >= TESTCASE_TIMEOUT_MS

ParseFailure(tc, stdout, executionTime) ==
    TestcaseResult("Error", tc, {"errorMessage"}, "undefined",
                   <<Txt("Failed to parse output: ")>> \o stdout,
                   executionTime)

\* variant: a result printed after the sentinel is graded before the exit
\* code is looked at
runTestcase_ResultFirst(tc, p) ==
    LET result == executeCommand(p)
        executionTime == p.elapsed
        debugOutput == DebugOutputOf(result.stdout)
        jsonOutput == JsonOutputOf(result.stdout)
        parsed == JsonParse(jsonOutput)
        actual == ResultMember(parsed.doc)
    IN [debugOutput |-> debugOutput,
        result |->
          IF IsTimeout(result.exitCode, executionTime)
          THEN TestcaseResult("Timeout", tc, {}, "undefined", <<>>,
                              executionTime)
          ELSE IF parsed.ok /\ actual # "throws"
          THEN TestcaseResult(
                   IF compareOutputs(tc.output, actual) THEN "Passed"
                   ELSE "Failed",
                   tc, {"actual"}, actual, <<>>, executionTime)
          ELSE IF result.exitCode # 0
          THEN TestcaseResult("Error", tc, {"errorMessage"}, "undefined",
                              IF result.stderr # <<>> THEN result.stderr
                              ELSE <<Txt("Runtime error")>>,
                              executionTime)
          ELSE ParseFailure(tc, result.stdout, executionTime)]

\* runTestcase for the way p, the `java Runner` / `python3 runner.py` child,
\* ended; p.elapsed is Date.now() - startTime
runTestcase(tc, p) ==
    LET result == executeCommand(p)
        executionTime == p.elapsed
        debugOutput == DebugOutputOf(result.stdout)
        jsonOutput == JsonOutputOf(result.stdout)
        parsed == JsonParse(jsonOutput)
        actual == ResultMember(parsed.doc)
    IN [debugOutput |-> debugOutput,
        result |->
          IF IsTimeout(result.exitCode, executionTime)
          THEN TestcaseResult("Timeout", tc, {}, "undefined", <<>>,
                              executionTime)
          ELSE IF result.exitCode # 0
          THEN TestcaseResult("Error", tc, {"errorMessage"}, "undefined",
                              IF result.stderr # <<>> THEN result.stderr
                              ELSE <<Txt("Runtime error")>>,
                              executionTime)
          ELSE IF ~parsed.ok \/ actual = "throws"
          THEN ParseFailure(tc, result.stdout, executionTime)
          ELSE TestcaseResult(
                   IF compareOutputs(tc.output, actual) THEN "Passed"
                   ELSE "Failed",
                   tc, {"actual"}, actual, <<>>, executionTime)]

\* ------------------------------------------------------------ executeCode
\* null, for firstFailure and firstHiddenFailure
NullResult ==
    [index |-> 0, status |-> "null", keys |-> {}, input |-> 0,
     expected |-> "undefined", actual |-> "undefined", errorMessage |-> <<>>,
     executionTime |-> 0]

\* a message string: fixed words, the testcase index they name (0: none) and
\* the text appended to them
Msg(head, index, detail) == [head |-> head, index |-> index, detail |-> detail]

Report(status, message, testcaseResults, total, passedCount, errors, debug) ==
    [kind |-> "report", status |-> status, message |-> message,
     testcaseResults |-> testcaseResults, totalTestcases |-> total,
     passedTestcases |-> passedCount, compilationErrors |-> errors,
     debugOutput |-> debug]

\* no completion yet / the promise rejected (an exception left executeCode)
NoReport ==
    [kind |-> "none", status |-> "", message |-> Msg("", 0, <<>>),
     testcaseResults |-> <<>>, totalTestcases |-> 0, passedTestcases |-> 0,
     compilationErrors |-> <<>>, debugOutput |-> <<>>]

Rejected == [NoReport EXCEPT !.kind = "rejected"]

\* the locals of the testcase loop
LoopState(res, dbg, p, ff, fhf) ==
    [results |-> res, debugOutputs |-> dbg, passed |-> p,
     firstFailure |-> ff, firstHiddenFailure |-> fhf]

\* `[Testcase ${i + 1}]\n${debugOutput}`
DebugSection(index, debugOutput) == [label |-> index, text |-> debugOutput]

\* variant: the newest section is put first
CollectDebug_NewestFirst(dbg, idx, debugOutput) ==
    IF debugOutput # <<>> THEN <<DebugSection(idx + 1, debugOutput)>> \o dbg
    ELSE dbg

\* debugOutputs.push when debugOutput is a non-empty string
CollectDebug(dbg, idx, debugOutput) ==
    IF debugOutput # <<>> THEN Append(dbg, DebugSection(idx + 1, debugOutput))
    ELSE dbg

\* variant: the third testcase is already treated as hidden
Tally_HiddenFromThird(st, idx, flag, result) ==
    IF ~flag /\ idx >= HiddenThreshold - 1
    THEN IF result.status = "Passed"
         THEN [st EXCEPT !.passed = @ + 1]
         ELSE [st EXCEPT
                 !.firstFailure = IF @ = NullResult THEN result ELSE @,
                 !.firstHiddenFailure = IF @ = NullResult THEN result ELSE @]
    ELSE IF result.status = "Passed"
         THEN [st EXCEPT !.results = Append(@, result), !.passed = @ + 1]
         ELSE [st EXCEPT !.results = Append(@, result),
                         !.firstFailure = IF @ = NullResult THEN result ELSE @]

\* variant: a hidden testcase that passes is not counted
Tally_HiddenPassNotCounted(st, idx, flag, result) ==
    IF ~flag /\ idx >= HiddenThreshold
    THEN IF result.status = "Passed"
         THEN st
         ELSE [st EXCEPT
                 !.firstFailure = IF @ = NullResult THEN result ELSE @,
                 !.firstHiddenFailure = IF @ = NullResult THEN result ELSE @]
    ELSE IF result.status = "Passed"
         THEN [st EXCEPT !.results = Append(@, result), !.passed = @ + 1]
         ELSE [st EXCEPT !.results = Append(@, result),
                         !.firstFailure = IF @ = NullResult THEN result ELSE @]

\* variant: every failure overwrites firstFailure
Tally_LastFailure(st, idx, flag, result) ==
    IF ~flag /\ idx >= HiddenThreshold
    THEN IF result.status = "Passed"
         THEN [st EXCEPT !.passed = @ + 1]
         ELSE [st EXCEPT
                 !.firstFailure = result,
                 !.firstHiddenFailure = IF @ = NullResult THEN result ELSE @]
    ELSE IF result.status = "Passed"
         THEN [st EXCEPT !.results = Append(@, result), !.passed = @ + 1]
         ELSE [st EXCEPT !.results = Append(@, result),
                         !.firstFailure = result]

\* variant: a Timeout starts the tally again, dropping what was recorded
Tally_TimeoutStartsAgain(st, idx, flag, result) ==
    IF result.status = "Timeout"
    THEN [st EXCEPT !.results = <<result>>, !.passed = 0,
                    !.firstFailure = result]
    ELSE IF ~flag /\ idx >= HiddenThreshold
    THEN IF result.status = "Passed"
         THEN [st EXCEPT !.passed = @ + 1]
         ELSE [st EXCEPT
                 !.firstFailure = IF @ = NullResult THEN result ELSE @,
                 !.firstHiddenFailure = IF @ = NullResult THEN result ELSE @]
    ELSE IF result.status = "Passed"
         THEN [st EXCEPT !.results = Append(@, result), !.passed = @ + 1]
         ELSE [st EXCEPT !.results = Append(@, result),
                         !.firstFailure = IF @ = NullResult THEN result ELSE @]

\* variant: a hidden failure is kept as firstHiddenFailure only
Tally_HiddenFailureApart(st, idx, flag, result) ==
    IF ~flag /\ idx >= HiddenThreshold
    THEN IF result.status = "Passed"
         THEN [st EXCEPT !.passed = @ + 1]
         ELSE [st EXCEPT
                 !.firstHiddenFailure = IF @ = NullResult THEN result ELSE @]
    ELSE IF result.status = "Passed"
         THEN [st EXCEPT !.results = Append(@, result), !.passed = @ + 1]
         ELSE [st EXCEPT !.results = Append(@, result),
                         !.firstFailure = IF @ = NullResult THEN result ELSE @]

\* the body of `if (!showHiddenInputs && i >= 3) ... else ...`
Tally(st, idx, flag, result) ==
    IF ~flag /\ idx >= HiddenThreshold
    THEN IF result.status = "Passed"
         THEN [st EXCEPT !.passed = @ + 1]
         ELSE [st EXCEPT
                 !.firstFailure = IF @ = NullResult THEN result ELSE @,
                 !.firstHiddenFailure = IF @ = NullResult THEN result ELSE @]
    ELSE IF result.status = "Passed"
         THEN [st EXCEPT !.results = Append(@, result), !.passed = @ + 1]
         ELSE [st EXCEPT !.results = Append(@, result),
                         !.firstFailure = IF @ = NullResult THEN result ELSE @]

\* one iteration of the loop after runTestcase returned rt (idx is i, 0-based)
\* variant: debug text of a redacted testcase is not collected
LoopBody_DebugOfShownOnly(st, idx, flag, rt) ==
    LET result == [rt.result EXCEPT !.index = idx + 1]
        collected == [st EXCEPT !.debugOutputs =
                         IF ~flag /\ idx >= HiddenThreshold THEN @
                         ELSE CollectDebug(@, idx, rt.debugOutput)]
    IN Tally(collected, idx, flag, result)

LoopBody(st, idx, flag, rt) ==
    LET result == [rt.result EXCEPT !.index = idx + 1]
        collected == [st EXCEPT !.debugOutputs =
                         CollectDebug(@, idx, rt.debugOutput)]
    IN Tally(collected, idx, flag, result)

\* variant: the check is made on every testcase, not only the first
IsPythonSyntaxError_AnyTestcase(idx, result) ==
    /\ result.status = "Error"
    /\ result.errorMessage # <<>>
    /\ \/ IncludesWord(result.errorMessage, "SyntaxError")
       \/ IncludesWord(result.errorMessage, "IndentationError")
       \/ IncludesSolutionFile(result.errorMessage)

\* PythonExecutor only: the first run's Error carries a syntax-error signature
IsPythonSyntaxError(idx, result) ==
    /\ idx = 0
    /\ result.status = "Error"
    /\ result.errorMessage # <<>>
    /\ \/ IncludesWord(result.errorMessage, "SyntaxError")
       \/ IncludesWord(result.errorMessage, "IndentationError")
       \/ IncludesSolutionFile(result.errorMessage)

PythonCompileErrorReport(result, total) ==
    Report("CE",
           Msg("Compilation Error: ", 0, <<Head(result.errorMessage)>>),
           <<>>, total, 0, parsePythonSyntaxErrors(result.errorMessage), <<>>)

\* variant: a compile that ran out of time is reported as TLE
JavaCompileErrorReport_TimeoutIsTLE(compileResult, total) ==
    Report(IF compileResult.error = TimeLimitText THEN "TLE" ELSE "CE",
           Msg("", 0, compileResult.error), <<>>, total, 0,
           compileResult.compilationErrors, <<>>)

JavaCompileErrorReport(compileResult, total) ==
    Report("CE", Msg("", 0, compileResult.error), <<>>, total, 0,
           compileResult.compilationErrors, <<>>)

\* variant: the first failure of all is appended, not the first hidden one
WithHiddenFailure_FirstOfAll(st, flag) ==
    IF st.firstFailure # NullResult /\ ~flag
    THEN Append(st.results, st.firstFailure)
    ELSE st.results

\* `if (firstHiddenFailure && !showHiddenInputs) results.push(...)`
WithHiddenFailure(st, flag) ==
    IF st.firstHiddenFailure # NullResult /\ ~flag
    THEN Append(st.results, st.firstHiddenFailure)
    ELSE st.results

\* the if / else if / else over firstFailure.status: the status ...
StatusOfFailure(ff) ==
    IF ff.status = "Timeout" THEN "TLE"
    ELSE IF ff.status = "Error" THEN "RE"
    ELSE "WA"

\* ... and the message
MessageOfFailure(ff) ==
    IF ff.status = "Timeout"
    THEN Msg("Time Limit Exceeded on testcase ", ff.index, <<>>)
    ELSE IF ff.status = "Error"
    THEN Msg("Runtime Error on testcase ", ff.index, ff.errorMessage)
    ELSE Msg("Wrong Answer on testcase ", ff.index, <<>>)

\* variant: passed is compared with the number of listed results
Overall_ComparesListed(st, total) ==
    IF st.passed = Len(st.results)
    THEN [status |-> "AC", message |-> Msg("Accepted", 0, <<>>)]
    ELSE IF st.firstFailure # NullResult
    THEN [status |-> StatusOfFailure(st.firstFailure),
          message |-> MessageOfFailure(st.firstFailure)]
    ELSE [status |-> "AC", message |-> Msg("", 0, <<>>)]

\* "Determine overall status": status and message
Overall(st, total) ==
    IF st.passed = total
    THEN [status |-> "AC", message |-> Msg("Accepted", 0, <<>>)]
    ELSE IF st.firstFailure # NullResult
    THEN [status |-> StatusOfFailure(st.firstFailure),
          message |-> MessageOfFailure(st.firstFailure)]
    ELSE [status |-> "AC", message |-> Msg("", 0, <<>>)]

FinalReport(st, flag, total) ==
    LET o == Overall(st, total)
    IN Report(o.status, o.message, WithHiddenFailure(st, flag), total,
              st.passed, <<>>, st.debugOutputs)

\* ------------------------------------- PythonExecutor: loop and final report
\* PythonExecutor.executeCode, one iteration of the loop past the check for
\* a syntax error: result.index = i + 1, the debug section, the tally
PythonLoopBody(st, idx, flag, rt) ==
    LET result == [rt.result EXCEPT !.index = idx + 1]
        isPassed == result.status = "Passed"
        hidden == ~flag /\ idx >= 3
    IN [st EXCEPT
          !.debugOutputs =
              IF rt.debugOutput # <<>>
              THEN Append(@, [label |-> idx + 1, text |-> rt.debugOutput])
              ELSE @,
          !.results = IF hidden THEN @ ELSE Append(@, result),
          !.passed = IF isPassed THEN @ + 1 ELSE @,
          !.firstFailure =
              IF ~isPassed /\ @ = NullResult THEN result ELSE @,
          !.firstHiddenFailure =
              IF hidden /\ ~isPassed /\ @ = NullResult THEN result ELSE @]

\* variant: the first hidden failure is not added to the results
PythonFinalReport_NoHiddenFailure(st, flag, total) ==
    LET ff == st.firstFailure
        accepted == st.passed = total
        status == IF accepted \/ ff = NullResult THEN "AC"
                  ELSE CASE ff.status = "Timeout" -> "TLE"
                         [] ff.status = "Error" -> "RE"
                         [] OTHER -> "WA"
        message ==
            IF accepted THEN Msg("Accepted", 0, <<>>)
            ELSE IF ff = NullResult THEN Msg("", 0, <<>>)
            ELSE CASE ff.status = "Timeout" ->
                        Msg("Time Limit Exceeded on testcase ", ff.index, <<>>)
                   [] ff.status = "Error" ->
                        Msg("Runtime Error on testcase ", ff.index,
                            ff.errorMessage)
                   [] OTHER ->
                        Msg("Wrong Answer on testcase ", ff.index, <<>>)
    IN [kind |-> "report", status |-> status, message |-> message,
        testcaseResults |-> st.results, totalTestcases |-> total,
        passedTestcases |-> st.passed, compilationErrors |-> <<>>,
        debugOutput |-> st.debugOutputs]

\* PythonExecutor.executeCode past the loop: the first hidden failure is
\* pushed, status and message are determined, the report is returned
PythonFinalReport(st, flag, total) ==
    LET ff == st.firstFailure
        listed == IF st.firstHiddenFailure # NullResult /\ ~flag
                  THEN Append(st.results, st.firstHiddenFailure)
                  ELSE st.results
        accepted == st.passed = total
        status == IF accepted \/ ff = NullResult THEN "AC"
                  ELSE CASE ff.status = "Timeout" -> "TLE"
                         [] ff.status = "Error" -> "RE"
                         [] OTHER -> "WA"
        message ==
            IF accepted THEN Msg("Accepted", 0, <<>>)
            ELSE IF ff = NullResult THEN Msg("", 0, <<>>)
            ELSE CASE ff.status = "Timeout" ->
                        Msg("Time Limit Exceeded on testcase ", ff.index, <<>>)
                   [] ff.status = "Error" ->
                        Msg("Runtime Error on testcase ", ff.index,
                            ff.errorMessage)
                   [] OTHER ->
                        Msg("Wrong Answer on testcase ", ff.index, <<>>)
    IN [kind |-> "report", status |-> status, message |-> message,
        testcaseResults |-> listed, totalTestcases |-> total,
        passedTestcases |-> st.passed, compilationErrors |-> <<>>,
        debugOutput |-> st.debugOutputs]

\* ------------------------------------------------------------ ResultPanel
\* `[Testcase ${i + 1}]\n${debugOutput}` as text
SectionText(section) == <<Label(section.label), Nl>> \o section.text

RECURSIVE JoinSections(_)
\* debugOutputs.join('\n\n'): the string the report carries as debugOutput
JoinSections(sections) ==
    IF sections = <<>> THEN <<>>
    ELSE IF Len(sections) = 1 THEN SectionText(Head(sections))
    ELSE SectionText(Head(sections)) \o <<Nl, Nl>>
         \o JoinSections(Tail(sections))

\* /\n\n(?=\[Testcase \d+\])/ matches at position p
SplitsAt(t, p) ==
    /\ p + 2 <= Len(t)
    /\ t[p].kind = "nl"
    /\ t[p + 1].kind = "nl"
    /\ t[p + 2].kind = "label"

RECURSIVE SplitSections(_)
\* result.debugOutput.split(/\n\n(?=\[Testcase \d+\])/)
SplitSections(t) ==
    IF \E p \in 1..Len(t) : SplitsAt(t, p)
    THEN LET p == CHOOSE p \in 1..Len(t) :
                      /\ SplitsAt(t, p)
                      /\ \A q \in 1..(p - 1) : ~SplitsAt(t, q)
         IN <<SubSeq(t, 1, p - 1)>>
            \o SplitSections(SubSeq(t, p + 2, Len(t)))
    ELSE <<t>>

\* testcaseResults.filter(tc => tc.status !== 'Passed').map(tc => tc.index)
FailingIndices(result) ==
    {result.testcaseResults[k].index :
        k \in {j \in 1..Len(result.testcaseResults) :
                  result.testcaseResults[j].status # "Passed"}}

\* section.match(/^\[Testcase (\d+)\]/) and failingIndices.includes(index)
IsFailingSection(section, failing) ==
    /\ section # <<>>
    /\ Head(section).kind = "label"
    /\ Head(section).line \in failing

\* the "Console Output" block: the sections it shows, <<>> when it returns
\* null
DebugPanel(result) ==
    IF result.status = "AC" \/ result.debugOutput = <<>> THEN <<>>
    ELSE IF FailingIndices(result) = {} THEN <<>>
    ELSE SelectSeq(SplitSections(JoinSections(result.debugOutput)),
                   LAMBDA section :
                       IsFailingSection(section, FailingIndices(result)))

\* nothing was rendered yet
NoPanel == [rendered |-> FALSE, debug |-> <<>>]

\* ---------------------------------------------------- inputs of a grading
Languages == {"java", "python3"}

\* testcase k of the list: its input is named k, its expected output is a
\* JSON value
TestcaseAt(k) == [input |-> k, output |-> IF k % 2 = 1 THEN "A" ELSE "B"]

TestcaseList(n) == [k \in 1..n |-> TestcaseAt(k)]

OtherValue(v) == IF v = "A" THEN "B" ELSE "A"

\* a diagnostic line as javac prints it
JavacLine(file, line, severity) ==
    <<JavaFile(file), Colon, Num(line), Colon, Ws, Severity(severity), Colon,
      Ws, Txt("message")>>

\* the ways a `javac Solution.java Runner.java` child ends
CompileOutcomes ==
    { Proc("exit", 0, <<>>, <<>>, 900),
      Proc("exit", 0, <<>>, JavacLine("Solution.java", 2, "warning"), 900),
      Proc("exit", 1, <<>>,
           JavacLine("./Solution.java", 3, "error") \o <<Nl, Txt("1 error")>>,
           900),
      Proc("exit", 127, <<>>, <<Txt("javac: command not found")>>, 5),
      Proc("exit", 1, <<>>, <<>>, 900),
      Proc("timeout", 0, <<>>, <<>>, COMPILE_TIMEOUT_MS) }

\* the ways a harness child ends for testcase tc, one for each way the
\* grading loop tells results apart; the first testcase has more of them
\* what the solution prints while it handles the input named k
Printed(k) == Tok("text", "debug", k)

HarnessOutcomes(l, tc) ==
    { Proc("exit", 0, <<Sep, Ws, Json("res:" \o tc.output), Ws>>, <<>>, 5),
      Proc("exit", 0,
           <<Printed(tc.input), Ws, Sep, Ws,
             Json("res:" \o OtherValue(tc.output))>>,
           <<>>, 5),
      Proc("timeout", 0, <<Printed(tc.input)>>, <<>>, TESTCASE_TIMEOUT_MS) }
    \cup
    (IF l = "java"
     THEN { Proc("exit", 1, <<>>, <<Txt("Exception in thread main")>>, 5) }
     ELSE { Proc("exit", 1, <<>>,
                 <<Tok("pyfile", "/temp/ws/solution.py", 3),
                   Tok("pyerr", "SyntaxError", 0)>>, 5) })
    \cup
    \* no stderr text; an output object without a result member
    (IF tc.input = 1
     THEN { Proc("exit", 1, <<Printed(tc.input), Sep>>, <<>>, 5),
            Proc("exit", 0, <<Sep, Json("obj")>>, <<>>, 5) }
     ELSE {})
    \cup
    \* the solution prints a blank line and a line [Testcase 1] of its own
    (IF tc.input = HiddenThreshold + 1
     THEN { Proc("exit", 0,
                 <<Printed(tc.input), Nl, Nl, Label(1), Nl, Printed(tc.input),
                   Nl, Sep, Nl, Json("res:" \o tc.output)>>, <<>>, 5) }
     ELSE {})
    \cup
    \* further error texts
    (IF l = "python3" /\ tc.input = 1
     THEN {Proc("exit", 1, <<>>,
                <<Tok("pyfile", "/temp/ws/runner.py", 20),
                  Tok("pyfile", "/temp/ws/solution.py", 4),
                  Tok("pyerr", "ZeroDivisionError", 0)>>, 5),
           Proc("exit", 1, <<>>, <<Tok("pyerr", "SyntaxError", 0)>>, 5),
           \* solution.py raises while it is imported; the source line the
           \* traceback shows has the word SyntaxError in it
           Proc("exit", 1, <<>>,
                <<Tok("pyfile", "/temp/ws/runner.py", 3),
                  Tok("pyfile", "/temp/ws/solution.py", 1),
                  Txt("SyntaxError"),
                  Tok("pyerr", "RuntimeError", 0)>>, 5),
           Proc("exit", 1, <<>>,
                <<Tok("pyfile", "/temp/ws/solution.py", 2),
                  Tok("pyerr", "IndentationError", 0)>>, 5),
           Proc("exit", 1, <<>>,
                <<Tok("pyfile", "solution.py", 7),
                  Tok("pyerr", "NameError", 0)>>, 5),
           Proc("exit", 0, <<Txt("SyntaxError"), Sep, Txt("oops")>>,
                <<>>, 5) }
     ELSE {})

SolutionFile(l) == IF l = "java" THEN "Solution.java" ELSE "solution.py"

RunnerFile(l) == IF l = "java" THEN "Runner.java" ELSE "runner.py"

\* the arguments of a runTestcase call looked at on its own
TextsUpTo(alphabet, n) == UNION {[1..k -> alphabet] : k \in 0..n}

StdoutAlphabet ==
    {Sep, Ws, Txt("debug"), Json("res:A"), Json("obj"), Json("null")}

ElapsedTimes ==
    {5, TESTCASE_TIMEOUT_MS - 1, TESTCASE_TIMEOUT_MS, TESTCASE_TIMEOUT_MS + 1}

\* runs that printed a JSON value which is not the {"result": ...} object,
\* after the sentinel or without it
BareValueProcs ==
    { Proc(e[1], e[2], out, <<>>, ms) :
        e \in {<<"exit", 0>>, <<"exit", 1>>},
        out \in UNION {{<<Json(d)>>, <<Sep, Json(d), Ws>>,
                        <<Txt("debug"), Sep, Json(d)>>} : d \in BareDocuments},
        ms \in ElapsedTimes }

RunProcs ==
    { Proc(e[1], e[2], out, err, ms) :
        e \in {<<"exit", 0>>, <<"exit", 1>>, <<"timeout", 0>>,
               <<"maxbuf", 0>>, <<"sigterm", 0>>},
        out \in TextsUpTo(StdoutAlphabet, MaxOut),
        err \in {<<>>, <<Txt("Exception in thread main")>>},
        ms \in ElapsedTimes }
    \cup BareValueProcs

NoCall == [tc |-> TestcaseAt(1), p |-> Proc("exit", 0, <<>>, <<>>, 0),
           done |-> FALSE,
           out |-> [debugOutput |-> <<>>, result |-> NullResult]]

\* the locals of the testcase loop, as one record
Locals == LoopState(results, debugOutputs, passed, firstFailure,
                    firstHiddenFailure)

\* ------------------------------------- executeCode calls side by side: data
Subs == 1..MaxSubs

\* the directory names uuidv4() returns, told apart by a number
Uuids == 1..(MaxSubs + 1)

\* variant: every call gets the same directory name
uuidv4_Fixed(used) == 1

\* uuidv4(): a version-4 UUID, a name that was not handed out before (names
\* differ in nothing but identity: the least unused number stands for it)
uuidv4(used) == CHOOSE d \in Uuids \ used : \A e \in Uuids \ used : d <= e

\* one executeCode call: executor, testcases.length, position, workspaceDir
\* (0: none yet), loop variable (it is gone once the try block is left), and
\* what the running harness found in input.txt (<<call, testcase>>)
IdleSub ==
    [lang |-> "java", n |-> 0, pc |-> "idle", dir |-> 0, i |-> 0,
     read |-> <<0, 0>>]

\* a directory: it exists or not, the names of its files, and whose testcase
\* input.txt holds (<<call, testcase>>)
NoDir == [exists |-> FALSE, files |-> {}, input |-> <<0, 0>>]

EmptyDisk == [d \in Uuids |-> NoDir]

\* ------------------------------------------------ the harness generators
\* type strings of a problem's metadata: three supported types, one of them
\* in two spellings, and one that the tables below do not list
TypeStrings == {"int", "int[]", "Integer[]", "string", "TreeNode"}

\* String.prototype.toLowerCase on the type strings
toLowerCase(typeStr) ==
    CASE typeStr = "Integer[]" -> "integer[]"
      [] typeStr = "TreeNode" -> "treenode"
      [] OTHER -> typeStr

\* JavaExecutor.mapTypeToJava: its rows, and the last line, which hands back
\* what it was given
mapTypeToJava(typeStr) ==
    LET t == toLowerCase(typeStr)
    IN CASE t \in {"integer", "int"} -> "int"
         [] t \in {"integer[]", "int[]"} -> "int[]"
         [] t \in {"integer[][]", "int[][]"} -> "int[][]"
         [] t = "string" -> "String"
         [] t = "string[]" -> "String[]"
         [] t = "string[][]" -> "String[][]"
         [] t \in {"boolean", "bool"} -> "boolean"
         [] t \in {"boolean[]", "bool[]"} -> "boolean[]"
         [] t \in {"double", "float"} -> "double"
         [] t \in {"double[]", "float[]"} -> "double[]"
         [] t = "long" -> "long"
         [] t = "long[]" -> "long[]"
         [] t = "char" -> "char"
         [] t = "char[]" -> "char[]"
         [] t = "char[][]" -> "char[][]"
         [] t \in {"list<integer>", "list<int>"} -> "List<Integer>"
         [] t = "list<string>" -> "List<String>"
         [] t \in {"list<list<integer>>", "list<list<int>>"} ->
              "List<List<Integer>>"
         [] t = "list<list<string>>" -> "List<List<String>>"
         [] t \in {"list<boolean>", "list<bool>"} -> "List<Boolean>"
         [] OTHER -> typeStr

\* one generated line that binds a parameter: the declared type of the local
\* and the conversion applied to data.get(name) / data[name]
ParseLine(name, type, decode, indent) ==
    [name |-> name, type |-> type, decode |-> decode, indent |-> indent]

\* JavaExecutor.getParseCode; the default case emits a comment and an Object
getParseCode(paramName, javaType) ==
    LET line(decode) == ParseLine(paramName, javaType, decode, 8)
    IN CASE javaType = "int" -> line("intValue")
         [] javaType = "long" -> line("longValue")
         [] javaType = "double" -> line("doubleValue")
         [] javaType = "boolean" -> line("castBoolean")
         [] javaType = "String" -> line("cast")
         [] javaType = "char" -> line("charAt0")
         [] javaType = "int[]" -> line("toIntArray")
         [] javaType = "long[]" -> line("toLongArray")
         [] javaType = "double[]" -> line("toDoubleArray")
         [] javaType = "boolean[]" -> line("toBooleanArray")
         [] javaType = "String[]" -> line("toStringArray")
         [] javaType = "char[]" -> line("toCharArray")
         [] javaType = "int[][]" -> line("toInt2DArray")
         [] javaType = "char[][]" -> line("toChar2DArray")
         [] javaType = "String[][]" -> line("toString2DArray")
         [] javaType = "List<Integer>" -> line("toIntegerList")
         [] javaType = "List<String>" -> line("toStringList")
         [] javaType = "List<List<Integer>>" -> line("toIntegerListList")
         [] javaType = "List<List<String>>" -> line("toStringListList")
         [] javaType = "List<Boolean>" -> line("toBooleanList")
         [] OTHER -> ParseLine(paramName, "Object", "none", 8)

\* JavaExecutor.getSerializeCode; the default case is String.valueOf(result)
getSerializeCode(javaType) ==
    CASE javaType \in {"int", "long", "double", "boolean"} -> "String.valueOf"
      [] javaType = "String" -> "quote"
      [] javaType = "char" -> "quoteChar"
      [] javaType \in {"int[]", "long[]", "double[]"} -> "arrayToJson"
      [] javaType = "boolean[]" -> "boolArrayToJson"
      [] javaType = "String[]" -> "stringArrayToJson"
      [] javaType = "char[]" -> "charArrayToJson"
      [] javaType = "int[][]" -> "array2DToJson"
      [] javaType = "char[][]" -> "char2DArrayToJson"
      [] javaType = "String[][]" -> "string2DArrayToJson"
      [] javaType \in {"List<Integer>", "List<String>", "List<Boolean>"} ->
           "listToJson"
      [] javaType \in {"List<List<Integer>>", "List<List<String>>"} ->
           "listListToJson"
      [] OTHER -> "String.valueOf"

ParamNames == <<"nums", "target", "k", "s">>

ProblemMetadata(functionName, params, returnType) ==
    [present |-> TRUE, functionName |-> functionName, params |-> params,
     returnType |-> returnType]

\* executeCode called without metadata, or with metadata of a problem that
\* has none of the three optional fields
NoMetadata ==
    [present |-> FALSE, functionName |-> "", params |-> <<>>, returnType |-> ""]

Metadatas ==
    {NoMetadata} \cup
    UNION {{ProblemMetadata("solve",
                            [k \in 1..n |-> [name |-> ParamNames[k],
                                             type |-> ts[k]]], r) :
               ts \in [1..n -> TypeStrings], r \in TypeStrings} :
           n \in 0..MaxParams}

\* metadata?.functionName || 'sortArray' and the two lines after it; an
\* empty params array is truthy and stays
FunctionNameOf(metadata) ==
    IF metadata.present THEN metadata.functionName ELSE "sortArray"

ParamsOf(metadata) ==
    IF metadata.present THEN metadata.params
    ELSE <<[name |-> "nums", type |-> "int[]"]>>

ReturnTypeOf(metadata) ==
    IF metadata.present THEN metadata.returnType ELSE "int[]"

\* the generated source, by its parts: the lines that bind the parameters,
\* the call, the expression that encodes the result, and the indentation of
\* the statements of the try block the lines are inserted in
RunnerSource(fn, parseLines, argsList, returnType, serializeExpr, indent) ==
    [functionName |-> fn, parseLines |-> parseLines, argsList |-> argsList,
     returnType |-> returnType, serializeExpr |-> serializeExpr,
     tryIndent |-> indent]

NoSource == RunnerSource("", <<>>, <<>>, "", "", 0)

\* getRunnerTemplate of the executor for language l.  Neither version has a
\* throw statement; PythonExecutor's never reads a type.
getRunnerTemplate(l, metadata) ==
    LET params == ParamsOf(metadata)
        names == [k \in 1..Len(params) |-> params[k].name]
    IN IF l = "java"
       THEN LET returnType == mapTypeToJava(ReturnTypeOf(metadata))
            IN RunnerSource(FunctionNameOf(metadata),
                            [k \in 1..Len(params) |->
                                getParseCode(params[k].name,
                                             mapTypeToJava(params[k].type))],
                            names, returnType, getSerializeCode(returnType),
                            12)
       ELSE RunnerSource(FunctionNameOf(metadata),
                         [k \in 1..Len(params) |->
                             ParseLine(params[k].name, "any", "subscript", 4)],
                         names, "any", "json.dumps", 8)

\* python3 accepts runner.py: every statement of the try block stands at the
\* block's indentation (Java does not read indentation)
Parses(l, source) ==
    \/ l = "java"
    \/ \A k \in 1..Len(source.parseLines) :
          source.parseLines[k].indent = source.tryIndent

\* evaluating serializeExpr can throw: the helpers and result.replace
\* dereference result, String.valueOf of a primitive or a reference does
\* not; json.dumps raises TypeError on a value that is not JSON
EncodeCanThrow(l, source) ==
    \/ l # "java"
    \/ source.serializeExpr \notin {"String.valueOf", "quoteChar"}

\* the harness of one testcase, before executeCode generated it
NoHarness ==
    [lang |-> "java", metadata |-> NoMetadata, pc |-> "none",
     source |-> NoSource, written |-> FALSE, started |-> 0, stdout |-> <<>>,
     stderr |-> <<>>, exitCode |-> 0, threw |-> "none"]

\* ---------------------------------------- values handed to the codec
\* the values handed to the encoder, by type string
CodecTypes ==
    {"int", "boolean", "double", "char", "string", "int[]", "char[]",
     "string[]", "int[][]", "list<string>", "list<list<integer>>",
     "int[][][]"}

Alphabet == {"a", Quote, Backslash}
Ints == {0, 7, 0 - 12}
Doubles == {JDouble(1, <<"1", ".", "5">>), JDouble(0, <<"N", "a", "N">>)}
Strings == {JStr(s) : s \in TextsUpTo(Alphabet, MaxStr)}
ShortStrings == {JStr(s) : s \in TextsUpTo(Alphabet, 1)}
Chars == {JChar(c) : c \in Alphabet}

ArraysOf(elements) == {JList(a) : a \in TextsUpTo(elements, MaxArr)}

ShortArraysOf(elements) == {JList(a) : a \in TextsUpTo(elements, 1)}

ValuesOf(typeStr) ==
    CASE typeStr = "int" -> {JInt(n) : n \in Ints}
      [] typeStr = "boolean" -> {JBool(b) : b \in BOOLEAN}
      [] typeStr = "double" -> Doubles
      [] typeStr = "char" -> Chars
      [] typeStr = "string" -> Strings
      [] typeStr = "int[]" -> ArraysOf({JInt(n) : n \in Ints})
      [] typeStr = "char[]" -> ArraysOf(Chars)
      [] typeStr \in {"string[]", "list<string>"} -> ArraysOf(ShortStrings)
      [] typeStr \in {"int[][]", "list<list<integer>>"} ->
           ArraysOf(ShortArraysOf({JInt(7)}))
      [] OTHER -> ShortArraysOf(ShortArraysOf(ShortArraysOf({JInt(7)})))

\* before a value is handed to the encoder
NoCodec ==
    [type |-> "", value |-> JNull, pc |-> "none", text |-> <<>>,
     parsed |-> Thrown, decoded |-> Thrown]

\* no text was handed to the parser
NoDiag == [text |-> <<>>, errors |-> <<>>, done |-> FALSE]

\* ------------------------------------------------- the HTTP handlers' data
\* the language a request body can name; "cpp" has no executor
RequestLanguages == Languages \cup {"cpp"}

\* req.body of POST /api/run and /api/submit, as far as the handlers read it:
\* customInput is "" (absent or empty: the visible testcases are used, in
\* either input mode), JSON text ("valid") or other text ("invalid")
Requests ==
    { [route |-> "run", inputMode |-> "default", customInput |-> ""],
      [route |-> "run", inputMode |-> "custom", customInput |-> "valid"],
      [route |-> "run", inputMode |-> "custom", customInput |-> "invalid"],
      [route |-> "submit", inputMode |-> "default", customInput |-> ""] }

\* { input: parsedInput, output: [] }
CustomTestcase == [input |-> 1, output |-> "[]"]

NoResponse == [code |-> 0, body |-> NoReport]

\* res.status(code).json({ error: text })
ErrorResponse(code, text) ==
    [code |-> code,
     body |-> [NoReport EXCEPT !.kind = "error",
                               !.message = Msg(text, 0, <<>>)]]

\* the text of the catch block of each route
FailureText(route) ==
    IF route = "run" THEN "Failed to run code" ELSE "Failed to submit code"

\* ------------------------------------------------------------------ state
Init ==
    /\ lang \in RequestLanguages
    /\ request \in Requests
    /\ showHiddenInputs = TRUE
    /\ testcases = <<>>
    /\ pc = "request"
    /\ response = NoResponse
    /\ ioFailed = "none"
    /\ subs = [s \in Subs |-> IdleSub]
    /\ disk = EmptyDisk
    /\ shell \in Shells
    /\ orphans = 0
    /\ harness = NoHarness
    /\ codec = NoCodec
    /\ diag = NoDiag
    /\ panel = NoPanel
    /\ workspace = "none"
    /\ files = {}
    /\ i = 0
    /\ results = <<>>
    /\ debugOutputs = <<>>
    /\ passed = 0
    /\ firstFailure = NullResult
    /\ firstHiddenFailure = NullResult
    /\ pending = NoReport
    /\ report = NoReport
    /\ verdicts = <<>>
    /\ debugTexts = <<>>
    /\ compileRuns = 0
    /\ harnessRuns = 0
    /\ cleanupCalls = 0
    /\ javac = "none"
    /\ rmFailed = FALSE
    /\ call = NoCall

inputs == <<lang, showHiddenInputs, testcases, call, request, shell>>
locals == <<i, results, debugOutputs, passed, firstFailure, firstHiddenFailure>>
history == <<verdicts, debugTexts, compileRuns, harnessRuns, cleanupCalls, javac, rmFailed>>

\* variant: no finally block, the exception leaves executeCode at once
Throw_SkipsFinally ==
    /\ pending' = Rejected
    /\ pc' = "done"

\* an exception inside the try block: finally runs, then the promise rejects
Throw ==
    /\ pending' = Rejected
    /\ pc' = "cleanup"

\* return inside the try block: finally runs, then the promise resolves
Return(r) ==
    /\ pending' = r
    /\ pc' = "cleanup"

\* router.post('/run' | '/submit'), up to the call of executeCode: the problem
\* is loaded (the store may throw), custom input is parsed, the testcases are
\* read, the executor is looked up; every throw is answered by the catch block
HandleRequest ==
    /\ pc = "request"
    /\ \E found \in BOOLEAN, n \in 0..MaxTests :
          LET custom == /\ request.route = "run"
                        /\ request.inputMode = "custom"
                        /\ request.customInput # ""
              refuse(r) == /\ response' = r
                           /\ pc' = "answered"
                           /\ UNCHANGED <<testcases, showHiddenInputs>>
          IN IF ~found
             THEN refuse(ErrorResponse(500, FailureText(request.route)))
             ELSE IF custom /\ request.customInput = "invalid"
             THEN refuse(ErrorResponse(400,
                             "Invalid custom input JSON format"))
             ELSE IF lang \notin Languages
             THEN refuse(ErrorResponse(500, FailureText(request.route)))
             ELSE /\ testcases' = IF custom THEN <<CustomTestcase>>
                                  ELSE TestcaseList(n)
                  /\ showHiddenInputs' = (request.route = "run")
                  /\ pc' = "start"
                  /\ response' = response
    /\ UNCHANGED <<lang, call, request, shell, locals, history, workspace,
                   files, pending, report, ioFailed>>
    /\ UNCHANGED <<concurrent, generated, orphans>>

\* variant: a rejected executeCode is answered with a Runtime Error report
Respond_FabricatesVerdict ==
    /\ pc = "done"
    /\ response = NoResponse
    /\ response' = [code |-> 200,
                    body |-> IF report.kind = "report" THEN report
                             ELSE Report("RE", Msg("Runtime Error", 0, <<>>),
                                         <<>>, Len(testcases), 0, <<>>, <<>>)]
    /\ UNCHANGED <<inputs, locals, history, pc, workspace, files, pending,
                   report, ioFailed>>
    /\ UNCHANGED <<concurrent, generated, orphans>>

\* executeCode settled: res.json(result), or the catch block's res.status(500)
Respond ==
    /\ pc = "done"
    /\ response = NoResponse
    /\ response' = IF report.kind = "report"
                   THEN [code |-> 200, body |-> report]
                   ELSE ErrorResponse(500, FailureText(request.route))
    /\ UNCHANGED <<inputs, locals, history, pc, workspace, files, pending,
                   report, ioFailed>>
    /\ UNCHANGED <<concurrent, generated, orphans>>

\* const workspaceDir = await this.createTempWorkspace()  (outside the try)
CreateTempWorkspace ==
    /\ pc = "start"
    /\ \E ok \in BOOLEAN :
          IF ok
          THEN /\ workspace' = "exists"
               /\ pc' = "writeSolution"
               /\ report' = report
               /\ ioFailed' = ioFailed
          ELSE /\ workspace' = workspace
               /\ pc' = "done"
               /\ report' = Rejected
               /\ ioFailed' = "mkdir"
    /\ UNCHANGED <<inputs, locals, history, files, pending, response>>
    /\ UNCHANGED <<concurrent, generated, orphans>>

\* await fs.writeFile(Solution.java | solution.py, userCode)
WriteSolution ==
    /\ pc = "writeSolution"
    /\ \E ok \in BOOLEAN :
          IF ok
          THEN /\ files' = files \cup {SolutionFile(lang)}
               /\ pc' = "writeRunner"
               /\ pending' = pending
               /\ ioFailed' = ioFailed
          ELSE /\ files' = files
               /\ ioFailed' = SolutionFile(lang)
               /\ Throw
    /\ UNCHANGED <<inputs, locals, history, workspace, report, response>>
    /\ UNCHANGED <<concurrent, generated, orphans>>

\* getRunnerTemplate(metadata); await fs.writeFile(Runner.java | runner.py)
WriteRunner ==
    /\ pc = "writeRunner"
    /\ \E ok \in BOOLEAN :
          IF ok
          THEN /\ files' = files \cup {RunnerFile(lang)}
               /\ pc' = IF lang = "java" THEN "compile" ELSE "loop"
               /\ pending' = pending
               /\ ioFailed' = ioFailed
          ELSE /\ files' = files
               /\ ioFailed' = RunnerFile(lang)
               /\ Throw
    /\ UNCHANGED <<inputs, locals, history, workspace, report, response>>
    /\ UNCHANGED <<concurrent, generated, orphans>>

\* JavaExecutor: compile() starts javac
StartCompile ==
    /\ pc = "compile"
    /\ compileRuns' = compileRuns + 1
    /\ pc' = "compiling"
    /\ UNCHANGED <<inputs, locals, workspace, files, pending, report,
                   verdicts, debugTexts, harnessRuns, cleanupCalls, javac, rmFailed,
                   response, ioFailed>>
    /\ UNCHANGED <<concurrent, generated, orphans>>

\* variant: a failed compile is tried a second time
CompileDone_RetryOnce ==
    /\ pc = "compiling"
    /\ \E p \in CompileOutcomes :
          LET compileResult == compile(p)
          IN /\ javac' = IF executeCommand(p).exitCode # 0 THEN "failed"
                         ELSE "ok"
             /\ orphans' = orphans + LeftRunning(p, shell)
             /\ IF ~compileResult.success /\ compileRuns < 2
                THEN /\ pc' = "compile"
                     /\ pending' = pending
                ELSE IF ~compileResult.success
                THEN Return(JavaCompileErrorReport(compileResult,
                                                   Len(testcases)))
                ELSE /\ pc' = "loop"
                     /\ pending' = pending
    /\ UNCHANGED <<inputs, locals, workspace, files, report, verdicts, debugTexts,
                   compileRuns, harnessRuns, cleanupCalls, rmFailed,
                   response, ioFailed>>
    /\ UNCHANGED <<concurrent, generated>>

\* javac ended: compile() returns, executeCode tests compileResult.success
CompileDone ==
    /\ pc = "compiling"
    /\ \E p \in CompileOutcomes :
          LET compileResult == compile(p)
          IN /\ javac' = IF executeCommand(p).exitCode # 0 THEN "failed"
                         ELSE "ok"
             /\ orphans' = orphans + LeftRunning(p, shell)
             /\ IF ~compileResult.success
                THEN Return(JavaCompileErrorReport(compileResult,
                                                   Len(testcases)))
                ELSE /\ pc' = "loop"
                     /\ pending' = pending
    /\ UNCHANGED <<inputs, locals, workspace, files, report, verdicts, debugTexts,
                   compileRuns, harnessRuns, cleanupCalls, rmFailed,
                   response, ioFailed>>
    /\ UNCHANGED <<concurrent, generated>>

\* loop test true; runTestcase writes input.txt and starts the harness
StartTestcase ==
    /\ pc = "loop"
    /\ i < Len(testcases)
    /\ \E ok \in BOOLEAN :
          IF ok
          THEN /\ files' = files \cup {"input.txt"}
               /\ harnessRuns' = harnessRuns + 1
               /\ pc' = "running"
               /\ pending' = pending
               /\ ioFailed' = ioFailed
          ELSE /\ files' = files
               /\ harnessRuns' = harnessRuns
               /\ ioFailed' = "input.txt"
               /\ Throw
    /\ UNCHANGED <<inputs, locals, workspace, report, verdicts, debugTexts, compileRuns,
                   cleanupCalls, javac, rmFailed, response>>
    /\ UNCHANGED <<concurrent, generated, orphans>>

\* the harness ended: runTestcase returns and the loop body runs
TestcaseDone ==
    /\ pc = "running"
    /\ \E p \in HarnessOutcomes(lang, testcases[i + 1]) :
          LET rt == runTestcase(testcases[i + 1], p)
              result == [rt.result EXCEPT !.index = i + 1]
              st == LoopBody(Locals, i, showHiddenInputs, rt)
          IN /\ verdicts' = Append(verdicts, result)
             /\ debugTexts' = Append(debugTexts, rt.debugOutput)
             /\ orphans' = orphans + LeftRunning(p, shell)
             /\ debugOutputs' = st.debugOutputs
             /\ IF lang = "python3" /\ IsPythonSyntaxError(i, result)
                THEN /\ Return(PythonCompileErrorReport(result, Len(testcases)))
                     /\ UNCHANGED <<i, results, passed, firstFailure,
                                    firstHiddenFailure>>
                ELSE /\ results' = st.results
                     /\ passed' = st.passed
                     /\ firstFailure' = st.firstFailure
                     /\ firstHiddenFailure' = st.firstHiddenFailure
                     /\ i' = i + 1
                     /\ pc' = "loop"
                     /\ pending' = pending
    /\ UNCHANGED <<inputs, workspace, files, report, compileRuns, harnessRuns,
                   cleanupCalls, javac, rmFailed, response, ioFailed>>
    /\ UNCHANGED <<concurrent, generated>>

\* variant: the loop is left at the first testcase that did not pass
Finish_AtFirstFailure ==
    /\ pc = "loop"
    /\ i = Len(testcases) \/ firstFailure # NullResult
    /\ results' = WithHiddenFailure(Locals, showHiddenInputs)
    /\ Return(FinalReport(Locals, showHiddenInputs, Len(testcases)))
    /\ UNCHANGED <<inputs, history, workspace, files, report, i, debugOutputs,
                   passed, firstFailure, firstHiddenFailure, response,
                   ioFailed>>
    /\ UNCHANGED <<concurrent, generated, orphans>>

\* loop test false: the hidden failure is appended and the report is returned
Finish ==
    /\ pc = "loop"
    /\ i = Len(testcases)
    /\ results' = WithHiddenFailure(Locals, showHiddenInputs)
    /\ Return(FinalReport(Locals, showHiddenInputs, Len(testcases)))
    /\ UNCHANGED <<inputs, history, workspace, files, report, i, debugOutputs,
                   passed, firstFailure, firstHiddenFailure, response,
                   ioFailed>>
    /\ UNCHANGED <<concurrent, generated, orphans>>

\* variant: a failure of fs.rm leaves cleanupWorkspace as an exception
CleanupWorkspace_RmFailureThrows ==
    /\ pc = "cleanup"
    /\ \E ok \in BOOLEAN :
          /\ workspace' = IF ok THEN "removed" ELSE workspace
          /\ files' = IF ok THEN {} ELSE files
          /\ rmFailed' = ~ok
          /\ report' = IF ok THEN pending ELSE Rejected
    /\ cleanupCalls' = cleanupCalls + 1
    /\ pc' = "done"
    /\ UNCHANGED <<inputs, locals, pending, verdicts, debugTexts, compileRuns, harnessRuns,
                   javac, response, ioFailed>>
    /\ UNCHANGED <<concurrent, generated, orphans>>

\* finally { await this.cleanupWorkspace(workspaceDir) }: fs.rm may throw,
\* which is caught and logged; then the completion of the try block stands
CleanupWorkspace ==
    /\ pc = "cleanup"
    /\ \E ok \in BOOLEAN :
          /\ workspace' = IF ok THEN "removed" ELSE workspace
          /\ files' = IF ok THEN {} ELSE files
          /\ rmFailed' = ~ok
    /\ cleanupCalls' = cleanupCalls + 1
    /\ report' = pending
    /\ pc' = "done"
    /\ UNCHANGED <<inputs, locals, pending, verdicts, debugTexts, compileRuns, harnessRuns,
                   javac, response, ioFailed>>
    /\ UNCHANGED <<concurrent, generated, orphans>>

\* what rendering leaves alone
backend == <<lang, showHiddenInputs, testcases, pc, workspace, files, i,
             results, debugOutputs, passed, firstFailure, firstHiddenFailure,
             pending, report, verdicts, debugTexts, compileRuns, harnessRuns,
             cleanupCalls, javac, rmFailed, call, request, response, ioFailed,
             shell, orphans, subs, disk, harness, codec, diag>>

\* setExecutionResult(result): ResultPanel renders the body of the answer
RenderResult ==
    /\ response.code = 200
    /\ ~panel.rendered
    /\ panel' = [rendered |-> TRUE, debug |-> DebugPanel(response.body)]
    /\ UNCHANGED backend

\* a process that was left running ends by itself
OrphanExits ==
    /\ orphans > 0
    /\ orphans' = orphans - 1
    /\ UNCHANGED <<inputs, locals, history, pc, workspace, files, pending,
                   report, response, ioFailed, concurrent, generated>>

Next ==
    \/ HandleRequest
    \/ OrphanExits
    \/ Respond
    \/ CreateTempWorkspace
    \/ WriteSolution
    \/ WriteRunner
    \/ StartCompile
    \/ CompileDone
    \/ StartTestcase
    \/ TestcaseDone
    \/ Finish
    \/ CleanupWorkspace
    \/ RenderResult

Spec == Init /\ [][Next]_vars

\* ------------------------------------- runTestcase as a function of the run
InitRun ==
    /\ lang \in Languages
    /\ showHiddenInputs = TRUE
    /\ testcases = <<>>
    /\ pc = "unit"
    /\ workspace = "exists"
    /\ files = {}
    /\ i = 0
    /\ results = <<>>
    /\ debugOutputs = <<>>
    /\ passed = 0
    /\ firstFailure = NullResult
    /\ firstHiddenFailure = NullResult
    /\ pending = NoReport
    /\ report = NoReport
    /\ verdicts = <<>>
    /\ debugTexts = <<>>
    /\ compileRuns = 0
    /\ harnessRuns = 0
    /\ cleanupCalls = 0
    /\ javac = "none"
    /\ rmFailed = FALSE
    /\ request = [route |-> "run", inputMode |-> "default", customInput |-> ""]
    /\ response = NoResponse
    /\ ioFailed = "none"
    /\ subs = [s \in Subs |-> IdleSub]
    /\ disk = EmptyDisk
    /\ shell \in Shells
    /\ orphans = 0
    /\ harness = NoHarness
    /\ codec = NoCodec
    /\ diag = NoDiag
    /\ panel = NoPanel
    /\ \E p \in RunProcs : call = [NoCall EXCEPT !.p = p]

\* runTestcase(workspaceDir, testcase) returns
RunTestcaseCall ==
    /\ pc = "unit"
    /\ ~call.done
    /\ call' = [call EXCEPT !.done = TRUE, !.out = runTestcase(call.tc, call.p)]
    /\ orphans' = orphans + LeftRunning(call.p, shell)
    /\ UNCHANGED <<lang, showHiddenInputs, testcases, pc, workspace, files,
                   locals, pending, report, history, request, response,
                   ioFailed, shell>>
    /\ UNCHANGED <<concurrent, generated>>

NextRun == RunTestcaseCall

SpecRun == InitRun /\ [][NextRun]_vars

\* ------------------------------ runTestcase on a run that printed a result
\* the harness exited with 0 inside the time limit and printed the sentinel
\* and a document with a result member; expected and actual range over
\* ValueNames
InitCompare ==
    /\ lang \in Languages
    /\ showHiddenInputs = TRUE
    /\ testcases = <<>>
    /\ pc = "unit"
    /\ workspace = "exists"
    /\ files = {SolutionFile(lang), RunnerFile(lang)}
    /\ i = 0
    /\ results = <<>>
    /\ debugOutputs = <<>>
    /\ passed = 0
    /\ firstFailure = NullResult
    /\ firstHiddenFailure = NullResult
    /\ pending = NoReport
    /\ report = NoReport
    /\ verdicts = <<>>
    /\ debugTexts = <<>>
    /\ compileRuns = 0
    /\ harnessRuns = 0
    /\ cleanupCalls = 0
    /\ javac = "none"
    /\ rmFailed = FALSE
    /\ request = [route |-> "run", inputMode |-> "default", customInput |-> ""]
    /\ response = NoResponse
    /\ ioFailed = "none"
    /\ subs = [s \in Subs |-> IdleSub]
    /\ disk = EmptyDisk
    /\ shell = "execs"
    /\ orphans = 0
    /\ harness = NoHarness
    /\ codec = NoCodec
    /\ diag = NoDiag
    /\ panel = NoPanel
    /\ \E expected \in ValueNames, actual \in ValueNames,
          debug \in {<<>>, <<Txt("debug")>>} :
          call = [NoCall EXCEPT
                     !.tc = [input |-> 1, output |-> expected],
                     !.p = Proc("exit", 0,
                                debug \o <<Sep, Json("res:" \o actual)>>,
                                <<>>, 5)]

SpecCompare == InitCompare /\ [][NextRun]_vars

\* ------------------------------------------ executeCode calls side by side
\* The file-system steps of MaxSubs executeCode calls that the event loop
\* interleaves at every await.
single == <<lang, showHiddenInputs, testcases, pc, workspace, files, i,
            results, debugOutputs, passed, firstFailure, firstHiddenFailure,
            pending, report, verdicts, debugTexts, compileRuns, harnessRuns, cleanupCalls,
            javac, rmFailed, call, request, response, ioFailed, shell,
            orphans, harness, codec, diag, panel>>

InitConc ==
    /\ lang = "java"
    /\ showHiddenInputs = TRUE
    /\ testcases = <<>>
    /\ pc = "conc"
    /\ workspace = "none"
    /\ files = {}
    /\ i = 0
    /\ results = <<>>
    /\ debugOutputs = <<>>
    /\ passed = 0
    /\ firstFailure = NullResult
    /\ firstHiddenFailure = NullResult
    /\ pending = NoReport
    /\ report = NoReport
    /\ verdicts = <<>>
    /\ debugTexts = <<>>
    /\ compileRuns = 0
    /\ harnessRuns = 0
    /\ cleanupCalls = 0
    /\ javac = "none"
    /\ rmFailed = FALSE
    /\ call = NoCall
    /\ request = [route |-> "run", inputMode |-> "default", customInput |-> ""]
    /\ response = NoResponse
    /\ ioFailed = "none"
    /\ \E l \in [Subs -> Languages] :
          subs = [s \in Subs |->
                     [IdleSub EXCEPT !.lang = l[s], !.n = MaxConcTests,
                                     !.pc = "start"]]
    /\ disk = EmptyDisk
    /\ shell = "execs"
    /\ orphans = 0
    /\ harness = NoHarness
    /\ codec = NoCodec
    /\ diag = NoDiag
    /\ panel = NoPanel

\* the names handed out so far
UsedUuids == {subs[s].dir : s \in Subs} \ {0}

\* the try block of call s is left: finally runs next
ConcLeaveTry(s) == [subs[s] EXCEPT !.pc = "cleanup", !.i = 0, !.read = <<0, 0>>]

\* fs.writeFile(path.join(dir, name), ...) by call s: it throws when the
\* directory is gone, and may throw otherwise
ConcWriteFile(s, name, input, next) ==
    LET d == subs[s].dir
    IN \E ok \in BOOLEAN :
          IF ok /\ disk[d].exists
          THEN /\ disk' = [disk EXCEPT ![d].files = @ \cup {name},
                                       ![d].input = input]
               /\ subs' = [subs EXCEPT ![s].pc = next]
          ELSE /\ disk' = disk
               /\ subs' = [subs EXCEPT ![s] = ConcLeaveTry(s)]

\* createTempWorkspace: path.join(cwd, 'temp', uuidv4()); mkdir recursive
ConcCreateTempWorkspace ==
    /\ \E s \in Subs :
          /\ subs[s].pc = "start"
          /\ \E ok \in BOOLEAN :
                LET d == uuidv4(UsedUuids)
                IN IF ok
                   THEN /\ disk' = [disk EXCEPT ![d].exists = TRUE]
                        /\ subs' = [subs EXCEPT ![s].dir = d,
                                                ![s].pc = "writeSolution"]
                   ELSE /\ disk' = disk
                        /\ subs' = [subs EXCEPT ![s].pc = "done"]
    /\ UNCHANGED single

ConcWriteSolution ==
    /\ \E s \in Subs :
          /\ subs[s].pc = "writeSolution"
          /\ ConcWriteFile(s, SolutionFile(subs[s].lang),
                           disk[subs[s].dir].input, "writeRunner")
    /\ UNCHANGED single

ConcWriteRunner ==
    /\ \E s \in Subs :
          /\ subs[s].pc = "writeRunner"
          /\ ConcWriteFile(s, RunnerFile(subs[s].lang),
                           disk[subs[s].dir].input,
                           IF subs[s].lang = "java" THEN "compile"
                           ELSE "loop")
    /\ UNCHANGED single

\* JavaExecutor: javac in the workspace; a failed compile returns CE
ConcCompile ==
    /\ \E s \in Subs :
          /\ subs[s].pc = "compile"
          /\ \E ok \in BOOLEAN :
                subs' = [subs EXCEPT
                            ![s] = IF ok THEN [@ EXCEPT !.pc = "loop"]
                                   ELSE ConcLeaveTry(s)]
          /\ disk' = disk
    /\ UNCHANGED single

\* runTestcase: fs.writeFile(input.txt, JSON.stringify(testcase.input))
ConcWriteInput ==
    /\ \E s \in Subs :
          /\ subs[s].pc = "loop"
          /\ subs[s].i < subs[s].n
          /\ ConcWriteFile(s, "input.txt", <<s, subs[s].i + 1>>, "exec")
    /\ UNCHANGED single

\* the shell of `java Runner < input.txt` opens input.txt in its cwd
ConcStartHarness ==
    /\ \E s \in Subs :
          /\ subs[s].pc = "exec"
          /\ LET d == disk[subs[s].dir]
                 found == IF d.exists /\ "input.txt" \in d.files
                          THEN d.input ELSE <<0, 0>>
             IN subs' = [subs EXCEPT ![s].read = found, ![s].pc = "running"]
          /\ disk' = disk
    /\ UNCHANGED single

\* the harness ended; PythonExecutor may return CE on the first testcase
ConcHarnessDone ==
    /\ \E s \in Subs :
          /\ subs[s].pc = "running"
          /\ \E ce \in BOOLEAN :
                IF ce /\ subs[s].lang = "python3" /\ subs[s].i = 0
                THEN subs' = [subs EXCEPT ![s] = ConcLeaveTry(s)]
                ELSE subs' = [subs EXCEPT ![s].i = @ + 1, ![s].pc = "loop",
                                          ![s].read = <<0, 0>>]
          /\ disk' = disk
    /\ UNCHANGED single

\* the loop ended: the report is returned
ConcFinish ==
    /\ \E s \in Subs :
          /\ subs[s].pc = "loop"
          /\ subs[s].i = subs[s].n
          /\ subs' = [subs EXCEPT ![s] = ConcLeaveTry(s)]
          /\ disk' = disk
    /\ UNCHANGED single

\* cleanupWorkspace: fs.rm(workspaceDir, recursive, force); a throw is logged
ConcCleanup ==
    /\ \E s \in Subs :
          /\ subs[s].pc = "cleanup"
          /\ \E ok \in BOOLEAN :
                disk' = IF ok THEN [disk EXCEPT ![subs[s].dir] = NoDir]
                        ELSE disk
          /\ subs' = [subs EXCEPT ![s].pc = "done"]
    /\ UNCHANGED single

NextConc ==
    \/ ConcCreateTempWorkspace
    \/ ConcWriteSolution
    \/ ConcWriteRunner
    \/ ConcCompile
    \/ ConcWriteInput
    \/ ConcStartHarness
    \/ ConcHarnessDone
    \/ ConcFinish
    \/ ConcCleanup

SpecConc == InitConc /\ [][NextConc]_vars

\* ------------------------------------- one harness: generated, then run once
\* The lines of executeCode that generate and write the harness, the commands
\* that compile and start it, and the statements of Runner.main / main() of
\* the generated program in the order the template lists them.
outside == <<lang, showHiddenInputs, testcases, pc, workspace, files, i,
             results, debugOutputs, passed, firstFailure, firstHiddenFailure,
             pending, report, verdicts, debugTexts, compileRuns, harnessRuns, cleanupCalls,
             javac, rmFailed, call, request, response, ioFailed, shell,
             orphans, subs, disk, codec, diag, panel>>

InitHarness ==
    /\ lang = "java"
    /\ showHiddenInputs = TRUE
    /\ testcases = <<>>
    /\ pc = "harness"
    /\ workspace = "none"
    /\ files = {}
    /\ i = 0
    /\ results = <<>>
    /\ debugOutputs = <<>>
    /\ passed = 0
    /\ firstFailure = NullResult
    /\ firstHiddenFailure = NullResult
    /\ pending = NoReport
    /\ report = NoReport
    /\ verdicts = <<>>
    /\ debugTexts = <<>>
    /\ compileRuns = 0
    /\ harnessRuns = 0
    /\ cleanupCalls = 0
    /\ javac = "none"
    /\ rmFailed = FALSE
    /\ call = NoCall
    /\ request = [route |-> "run", inputMode |-> "default", customInput |-> ""]
    /\ response = NoResponse
    /\ ioFailed = "none"
    /\ subs = [s \in Subs |-> IdleSub]
    /\ disk = EmptyDisk
    /\ shell = "execs"
    /\ orphans = 0
    /\ codec = NoCodec
    /\ diag = NoDiag
    /\ panel = NoPanel
    /\ \E l \in Languages, m \in Metadatas :
          harness = [NoHarness EXCEPT !.lang = l, !.metadata = m,
                                      !.pc = "generate"]

\* the catch block of the harness: "Error: <message>" on stderr (Runner.main
\* adds the stack trace), then exit status 1; what was printed stays printed
Caught(phase, out) ==
    [harness EXCEPT !.pc = "exited", !.stdout = out,
                    !.stderr = IF harness.lang = "java"
                               THEN <<Txt("Error: "), Txt("at Runner.main")>>
                               ELSE <<Txt("Error: ")>>,
                    !.exitCode = 1, !.threw = phase]

\* executeCode: getRunnerTemplate(metadata), then fs.writeFile of the result
GenerateHarness ==
    /\ harness.pc = "generate"
    /\ harness' = [harness EXCEPT
                      !.source = getRunnerTemplate(harness.lang,
                                                   harness.metadata),
                      !.written = TRUE,
                      !.pc = IF harness.lang = "java" THEN "compile"
                             ELSE "launch"]
    /\ UNCHANGED outside

\* javac Solution.java Runner.java: accepted or not, by the two sources
CompileHarness ==
    /\ harness.pc = "compile"
    /\ \E ok \in BOOLEAN, file \in {"Solution.java", "Runner.java"} :
          harness' = [harness EXCEPT
                         !.started = @ + 1,
                         !.pc = IF ok THEN "launch" ELSE "rejected",
                         !.stderr = IF ok THEN <<>>
                                    ELSE JavacLine(file, 1, "error")]
    /\ UNCHANGED outside

\* java Runner / python3 runner.py starts.  python3 reads runner.py first: a
\* file it cannot parse ends the process before any statement runs, and
\* "from solution import Solution" stands outside the try block.
StartHarness ==
    /\ harness.pc = "launch"
    /\ IF ~Parses(harness.lang, harness.source)
       THEN harness' = [harness EXCEPT
                           !.started = @ + 1, !.pc = "exited",
                           !.stderr = <<Tok("pyfile", "/temp/ws/runner.py", 12),
                                        Tok("pyerr", "SyntaxError", 0)>>,
                           !.exitCode = 1]
       ELSE \E loaded \in BOOLEAN :
               /\ harness.lang = "java" => loaded
               /\ harness' =
                     IF loaded
                     THEN [harness EXCEPT !.started = @ + 1, !.pc = "decode"]
                     ELSE [harness EXCEPT
                              !.started = @ + 1, !.pc = "exited",
                              !.stderr =
                                  <<Tok("pyfile", "/temp/ws/runner.py", 3),
                                    Tok("pyfile", "/temp/ws/solution.py", 1),
                                    Tok("pyerr", "SyntaxError", 0)>>,
                              !.exitCode = 1]
    /\ UNCHANGED outside

\* read stdin, parse it, bind every parameter: a document that does not fit
\* the generated lines throws (a missing key, a cast)
DecodeInput ==
    /\ harness.pc = "decode"
    /\ \E ok \in BOOLEAN :
          harness' = IF ok THEN [harness EXCEPT !.pc = "call"]
                     ELSE Caught("decode", harness.stdout)
    /\ UNCHANGED outside

\* new Solution() and the call.  The submitted code may print, and it returns,
\* throws what the catch block catches, or throws what it does not catch: a
\* java.lang.Error ends the JVM with its stack trace and status 1, SystemExit
\* of sys.exit(0) ends python3 silently with status 0.
CallSolution ==
    /\ harness.pc = "call"
    /\ \E debug \in {<<>>, <<Txt("debug")>>},
          outcome \in {"returns", "throws", "escapes"} :
          harness' =
              CASE outcome = "returns" ->
                     [harness EXCEPT !.pc = "sentinel", !.stdout = debug]
                [] outcome = "throws" -> Caught("call", debug)
                [] OTHER ->
                     IF harness.lang = "java"
                     THEN [harness EXCEPT
                              !.pc = "exited", !.stdout = debug,
                              !.stderr = <<Txt("Exception in thread main")>>,
                              !.exitCode = 1, !.threw = "call"]
                     ELSE [harness EXCEPT
                              !.pc = "exited", !.stdout = debug,
                              !.threw = "call"]
    /\ UNCHANGED outside

\* the statement that prints RESULT_SEPARATOR, before the result is encoded
PrintSentinel ==
    /\ harness.pc = "sentinel"
    /\ harness' = [harness EXCEPT !.pc = "encode",
                                  !.stdout = Append(@, Sep)]
    /\ UNCHANGED outside

\* the statements after it: Runner.main prints {"result": and then evaluates
\* serializeExpr, main() builds the document with json.dumps and prints it
EncodeResult ==
    /\ harness.pc = "encode"
    /\ \E ok \in BOOLEAN :
          /\ ~ok => EncodeCanThrow(harness.lang, harness.source)
          /\ harness' =
                IF ok
                THEN [harness EXCEPT !.pc = "exited",
                                     !.stdout = Append(@, Json("res:A"))]
                ELSE Caught("encode",
                            IF harness.lang = "java"
                            THEN Append(harness.stdout, Txt("{\"result\":"))
                            ELSE harness.stdout)
    /\ UNCHANGED outside

NextHarness ==
    \/ GenerateHarness
    \/ CompileHarness
    \/ StartHarness
    \/ DecodeInput
    \/ CallSolution
    \/ PrintSentinel
    \/ EncodeResult

SpecHarness == InitHarness /\ [][NextHarness]_vars

\* ------------------------------- one value: encoded, then parsed and decoded
\* The expression Runner.main prints the result with, applied to a value of
\* the declared type, and parseJsonValue and the parameter's conversion
\* applied to the text it gave.
uncoded == <<lang, showHiddenInputs, testcases, pc, workspace, files, i,
             results, debugOutputs, passed, firstFailure, firstHiddenFailure,
             pending, report, verdicts, debugTexts, compileRuns, harnessRuns, cleanupCalls,
             javac, rmFailed, call, request, response, ioFailed, shell,
             orphans, subs, disk, harness, diag, panel>>

InitCodec ==
    /\ lang = "java"
    /\ showHiddenInputs = TRUE
    /\ testcases = <<>>
    /\ pc = "codec"
    /\ workspace = "none"
    /\ files = {}
    /\ i = 0
    /\ results = <<>>
    /\ debugOutputs = <<>>
    /\ passed = 0
    /\ firstFailure = NullResult
    /\ firstHiddenFailure = NullResult
    /\ pending = NoReport
    /\ report = NoReport
    /\ verdicts = <<>>
    /\ debugTexts = <<>>
    /\ compileRuns = 0
    /\ harnessRuns = 0
    /\ cleanupCalls = 0
    /\ javac = "none"
    /\ rmFailed = FALSE
    /\ call = NoCall
    /\ request = [route |-> "run", inputMode |-> "default", customInput |-> ""]
    /\ response = NoResponse
    /\ ioFailed = "none"
    /\ subs = [s \in Subs |-> IdleSub]
    /\ disk = EmptyDisk
    /\ shell = "execs"
    /\ orphans = 0
    /\ harness = NoHarness
    /\ diag = NoDiag
    /\ panel = NoPanel
    /\ \E t \in CodecTypes :
          \E v \in ValuesOf(t) :
             codec = [NoCodec EXCEPT !.type = t, !.value = v, !.pc = "value"]

\* System.out.print(<serializeExpr>) with result = codec.value
CodecEncode ==
    /\ codec.pc = "value"
    /\ LET javaType == mapTypeToJava(codec.type)
       IN codec' = [codec EXCEPT
                       !.text = Serialize(getSerializeCode(javaType), javaType,
                                          codec.value),
                       !.pc = "encoded"]
    /\ UNCHANGED uncoded

\* parseJsonValue on the printed text
CodecParse ==
    /\ codec.pc = "encoded"
    /\ codec' = [codec EXCEPT !.parsed = parseJsonValue(codec.text, 1),
                              !.pc = "parsed"]
    /\ UNCHANGED uncoded

\* the conversion of the generated parse line on the parsed value
CodecConvert ==
    /\ codec.pc = "parsed"
    /\ LET decode == getParseCode("x", mapTypeToJava(codec.type)).decode
       IN codec' = [codec EXCEPT
                       !.decoded = IF codec.parsed.threw THEN Thrown
                                   ELSE Convert(decode, codec.parsed.v),
                       !.pc = "decoded"]
    /\ UNCHANGED uncoded

NextCodec ==
    \/ CodecEncode
    \/ CodecParse
    \/ CodecConvert

SpecCodec == InitCodec /\ [][NextCodec]_vars

\* -------------------------------------------------- diagnostics on their own
\* parseJavaCompilationErrors applied to one stderr text of javac.  javac
\* prints, after a diagnostic line, the source line it is about and a caret
\* line, so lines of the user's source are part of the text.
undiagnosed == <<lang, showHiddenInputs, testcases, pc, workspace, files, i,
                 results, debugOutputs, passed, firstFailure,
                 firstHiddenFailure, pending, report, verdicts, debugTexts, compileRuns,
                 harnessRuns, cleanupCalls, javac, rmFailed, call, request,
                 response, ioFailed, shell, orphans, subs, disk, harness,
                 codec, panel>>

\* the lines a text is made of
JavacLines ==
    { JavacLine("Solution.java", 3, "error"),
      JavacLine("./Solution.java", 5, "warning"),
      <<JavaFile("Runner.java"), Colon, Num(1), Colon, Severity("error"),
        Colon, Txt("m")>>,
      <<Txt("see"), Ws, JavaFile("Solution.java"), Colon, Num(2), Colon, Ws,
        Severity("error"), Colon, Ws, Txt("q")>>,
      <<JavaFile("Solution.java"), Colon, Num(3), Colon, Ws,
        Severity("error"), Colon, Ws>>,
      <<JavaFile("Solution.java"), Colon, Num(4), Colon>>,
      <<Severity("warning"), Colon, Ws, Txt("x")>>,
      <<Ws, Txt("^")>>,
      <<Txt("1 error")>>,
      <<JavaFile("Solution.java"), Colon, Num(6), Colon, Ws, Txt("Error"),
        Colon, Ws, Txt("m")>>,
      <<>> }

RECURSIVE JoinLines(_)
JoinLines(ls) ==
    IF ls = <<>> THEN <<>>
    ELSE IF Len(ls) = 1 THEN Head(ls)
    ELSE Head(ls) \o <<Nl>> \o JoinLines(Tail(ls))

JavacTexts ==
    {JoinLines(ls) : ls \in UNION {[1..n -> JavacLines] : n \in 0..MaxLines}}

InitDiag ==
    /\ lang = "java"
    /\ request = [route |-> "run", inputMode |-> "default", customInput |-> ""]
    /\ showHiddenInputs = TRUE
    /\ testcases = <<>>
    /\ pc = "diag"
    /\ response = NoResponse
    /\ ioFailed = "none"
    /\ subs = [s \in Subs |-> IdleSub]
    /\ disk = EmptyDisk
    /\ shell = "execs"
    /\ orphans = 0
    /\ harness = NoHarness
    /\ codec = NoCodec
    /\ workspace = "none"
    /\ files = {}
    /\ i = 0
    /\ results = <<>>
    /\ debugOutputs = <<>>
    /\ passed = 0
    /\ firstFailure = NullResult
    /\ firstHiddenFailure = NullResult
    /\ pending = NoReport
    /\ report = NoReport
    /\ verdicts = <<>>
    /\ debugTexts = <<>>
    /\ compileRuns = 0
    /\ harnessRuns = 0
    /\ cleanupCalls = 0
    /\ javac = "none"
    /\ rmFailed = FALSE
    /\ call = NoCall
    /\ panel = NoPanel
    /\ \E text \in JavacTexts :
          diag = [text |-> text, errors |-> <<>>, done |-> FALSE]

\* const compilationErrors = this.parseJavaCompilationErrors(result.stderr)
ParseDiagnostics ==
    /\ ~diag.done
    /\ diag' = [diag EXCEPT !.errors = parseJavaCompilationErrors(diag.text),
                            !.done = TRUE]
    /\ UNCHANGED undiagnosed

NextDiag == ParseDiagnostics

SpecDiag == InitDiag /\ [][NextDiag]_vars

\* --------------------------------- /submit: the testcases of the two files
\* a Java submission to /submit, with the problem's testcases told apart by
\* the file they were read from
\* testcases_hidden.json, k-th entry; its input is none of the visible ones
HiddenTestcaseAt(k) ==
    [input |-> MaxTests + k, output |-> IF k % 2 = 1 THEN "B" ELSE "A"]

\* a stored problem: testcases.json and testcases_hidden.json (which may be
\* absent: an empty list)
Problems ==
    { [visibleTestcases |-> TestcaseList(n[1]),
       hiddenTestcases |-> [k \in 1..n[2] |-> HiddenTestcaseAt(k)]] :
        n \in {c \in (0..MaxTests) \X (0..MaxTests) : c[1] + c[2] <= MaxTests} }

\* variant: the hidden testcases come first
getAllTestcases_HiddenFirst(problem) ==
    problem.hiddenTestcases \o problem.visibleTestcases

\* [...problem.visibleTestcases, ...(problem.hiddenTestcases || [])]
getAllTestcases(problem) ==
    problem.visibleTestcases \o problem.hiddenTestcases

InitSubmit ==
    /\ lang = "java"
    /\ request = [route |-> "submit", inputMode |-> "default", customInput |-> ""]
    /\ showHiddenInputs = TRUE
    /\ testcases = <<>>
    /\ pc = "request"
    /\ response = NoResponse
    /\ ioFailed = "none"
    /\ subs = [s \in Subs |-> IdleSub]
    /\ disk = EmptyDisk
    /\ shell = "execs"
    /\ orphans = 0
    /\ harness = NoHarness
    /\ codec = NoCodec
    /\ diag = NoDiag
    /\ panel = NoPanel
    /\ workspace = "none"
    /\ files = {}
    /\ i = 0
    /\ results = <<>>
    /\ debugOutputs = <<>>
    /\ passed = 0
    /\ firstFailure = NullResult
    /\ firstHiddenFailure = NullResult
    /\ pending = NoReport
    /\ report = NoReport
    /\ verdicts = <<>>
    /\ debugTexts = <<>>
    /\ compileRuns = 0
    /\ harnessRuns = 0
    /\ cleanupCalls = 0
    /\ javac = "none"
    /\ rmFailed = FALSE
    /\ call = NoCall

\* router.post('/submit') up to the call of executeCode: the problem is
\* loaded (the store may throw), all its testcases are read, visible ones
\* first, and executeCode is called with showHiddenInputs = false
SubmitRequest ==
    /\ pc = "request"
    /\ request.route = "submit"
    /\ \E found \in BOOLEAN, problem \in Problems :
          IF ~found
          THEN /\ response' = ErrorResponse(500, FailureText(request.route))
               /\ pc' = "answered"
               /\ UNCHANGED <<testcases, showHiddenInputs>>
          ELSE /\ testcases' = getAllTestcases(problem)
               /\ showHiddenInputs' = FALSE
               /\ pc' = "start"
               /\ response' = response
    /\ UNCHANGED <<lang, call, request, shell, locals, history, workspace,
                   files, pending, report, ioFailed>>
    /\ UNCHANGED <<concurrent, generated, orphans>>

NextSubmit ==
    \/ SubmitRequest
    \/ Respond
    \/ CreateTempWorkspace
    \/ WriteSolution
    \/ WriteRunner
    \/ StartCompile
    \/ CompileDone
    \/ StartTestcase
    \/ TestcaseDone
    \/ Finish
    \/ CleanupWorkspace

SpecSubmit == InitSubmit /\ [][NextSubmit]_vars

\* ================================================================ claims
\* executeCode completed and the caller holds a report, which the route
\* handler has yet to send (it sends the report as it is)
Reported == pc = "done" /\ report.kind = "report" /\ response = NoResponse

Graded == Reported /\ report.status # "CE"

Total == Len(testcases)

NonPassed(vs) == {k \in 1..Len(vs) : vs[k].status # "Passed"}

\* the lowest position (1-based) whose verdict is not Passed
FirstNonPassed(vs) == CHOOSE k \in NonPassed(vs) : \A j \in NonPassed(vs) : k <= j

CountPassed(vs) == Cardinality({k \in 1..Len(vs) : vs[k].status = "Passed"})

StatusFor(verdict) ==
    CASE verdict = "Timeout" -> "TLE"
      [] verdict = "Error" -> "RE"
      [] verdict = "Failed" -> "WA"
      [] OTHER -> "AC"

\* C1: when javac ends with a non-zero exit code, executeCode goes straight to
\* its cleanup and returns status CE with no testcase results, 0 passed,
\* totalTestcases = number of supplied testcases, and no harness run is ever
\* started.
C1_CompileFailureIsTerminal ==
    javac = "failed" =>
        /\ pc \in {"cleanup", "done"}
        /\ harnessRuns = 0
        /\ verdicts = <<>>
        /\ pc = "done" =>
              /\ report.kind = "report"
              /\ report.status = "CE"
              /\ report.testcaseResults = <<>>
              /\ report.passedTestcases = 0
              /\ report.totalTestcases = Total

C1_Witness ==
    /\ pc = "done"
    /\ lang = "java"
    /\ javac = "failed"
    /\ Total = 3
    /\ report.status = "CE"

\* C2: a report that is not CE has status AC exactly when every one of the N
\* supplied testcases got the verdict Passed; then passedTestcases = N =
\* totalTestcases and the message is 'Accepted' (N = 0 included); AC never
\* comes with passedTestcases < totalTestcases.
C2_AcceptedIffAllPassed ==
    Graded =>
        /\ report.status = "AC" <=>
              (Len(verdicts) = Total /\ NonPassed(verdicts) = {})
        /\ report.status = "AC" =>
              /\ report.passedTestcases = Total
              /\ report.totalTestcases = Total
              /\ report.message = Msg("Accepted", 0, <<>>)

C2_Witness ==
    /\ Graded
    /\ report.status = "AC"
    /\ ~showHiddenInputs
    /\ Total = MaxTests
    /\ report.passedTestcases = MaxTests

\* C3: when some testcase is not Passed and the report is not CE, the status
\* is that of the lowest-index verdict that is not Passed (Timeout -> TLE,
\* Error -> RE, Failed -> WA) and the message names its 1-based index,
\* whatever the later verdicts and the redaction flag are.
C3_FirstFailureWins ==
    (Graded /\ NonPassed(verdicts) # {}) =>
        LET k == FirstNonPassed(verdicts)
        IN /\ report.status = StatusFor(verdicts[k].status)
           /\ report.message.index = k
           /\ report.message.head =
                 CASE verdicts[k].status = "Timeout" ->
                          "Time Limit Exceeded on testcase "
                   [] verdicts[k].status = "Error" ->
                          "Runtime Error on testcase "
                   [] OTHER -> "Wrong Answer on testcase "

\* a hidden first failure followed by a failure of another kind, redacted
C3_Witness ==
    /\ Graded
    /\ ~showHiddenInputs
    /\ Total = 5
    /\ NonPassed(verdicts) = {4, 5}
    /\ verdicts[4].status = "Failed"
    /\ verdicts[5].status = "Timeout"
    /\ report.status = "WA"

\* the verdict list the visibility policy prescribes
HiddenNonPassed(vs) == {k \in NonPassed(vs) : k > HiddenThreshold}

Disclosed(vs, flag) ==
    IF flag THEN vs
    ELSE LET shown == SubSeq(vs, 1, IF Len(vs) < HiddenThreshold THEN Len(vs)
                                    ELSE HiddenThreshold)
         IN IF HiddenNonPassed(vs) = {} THEN shown
            ELSE Append(shown,
                        vs[CHOOSE k \in HiddenNonPassed(vs) :
                              \A j \in HiddenNonPassed(vs) : k <= j])

\* C4: with redaction and a non-CE outcome, testcaseResults is the verdicts of
\* positions 0..min(N,3)-1 in order, followed by the verdict of the lowest
\* position >= 3 that is not Passed, if there is one, and nothing else; every
\* listed verdict has index = position + 1, so indices strictly increase.
\* Without redaction testcaseResults is all N verdicts in order.
C4_RedactedResults ==
    Graded =>
        /\ report.testcaseResults = Disclosed(verdicts, showHiddenInputs)
        /\ Len(verdicts) = Total
        /\ \A k \in 1..Len(verdicts) : verdicts[k].index = k
        /\ \A a, b \in 1..Len(report.testcaseResults) :
              a < b => report.testcaseResults[a].index
                         < report.testcaseResults[b].index

\* a passed hidden testcase and two failing ones after it: one is listed
C4_Witness ==
    /\ Graded
    /\ ~showHiddenInputs
    /\ Total = 5
    /\ Len(report.testcaseResults) = 4
    /\ report.testcaseResults[4].index = 4
    /\ NonPassed(verdicts) = {2, 4, 5}

\* the first three positions (all of them when N < 3)
AlwaysShown == 1..(IF Total < HiddenThreshold THEN Total ELSE HiddenThreshold)

\* C5 as stated: in every non-CE report the verdicts of the first three
\* testcases are listed, each with input, expected, and actual or errorMessage,
\* whatever the flag and the status.
C5_FirstThreeWithActualOrError ==
    Graded =>
        \A k \in AlwaysShown :
            /\ k <= Len(report.testcaseResults)
            /\ report.testcaseResults[k].index = k
            /\ report.testcaseResults[k].input = testcases[k].input
            /\ report.testcaseResults[k].expected = testcases[k].output
            /\ report.testcaseResults[k].keys \cap {"actual", "errorMessage"}
                  # {}

\* C5 amended: in every non-CE report the verdicts of the first three
\* testcases are listed in order, for both values of the flag, each with its
\* index, input and expected; an Error verdict has a non-empty errorMessage, a
\* Passed or Failed verdict has the member actual (the parsed result), and a
\* Timeout verdict has neither actual nor errorMessage.
C5_FirstThreeInFull ==
    Graded =>
        \A k \in AlwaysShown :
            /\ k <= Len(report.testcaseResults)
            /\ report.testcaseResults[k] = verdicts[k]
            /\ report.testcaseResults[k].index = k
            /\ report.testcaseResults[k].input = testcases[k].input
            /\ report.testcaseResults[k].expected = testcases[k].output
            /\ LET r == report.testcaseResults[k]
               IN CASE r.status = "Error" ->
                          r.keys = {"errorMessage"} /\ r.errorMessage # <<>>
                    [] r.status \in {"Passed", "Failed"} ->
                          r.keys = {"actual"}
                    [] OTHER -> r.status = "Timeout" /\ r.keys = {}

\* redacted, five testcases, the first three a Timeout, an Error and a Failed
C5_Witness ==
    /\ Graded
    /\ ~showHiddenInputs
    /\ Total = 5
    /\ report.testcaseResults[1].status = "Timeout"
    /\ report.testcaseResults[2].status = "Error"
    /\ report.testcaseResults[3].status = "Failed"

\* the loop replayed over a verdict sequence with a given flag
RECURSIVE Replay(_, _)
Replay(vs, flag) ==
    IF vs = <<>>
    THEN LoopState(<<>>, <<>>, 0, NullResult, NullResult)
    ELSE LoopBody(Replay(SubSeq(vs, 1, Len(vs) - 1), flag), Len(vs) - 1, flag,
                  [result |-> vs[Len(vs)], debugOutput |-> <<>>])

\* C6: for the verdict sequence of a grading, executeCode with the other value
\* of showHiddenInputs returns the same status, message, totalTestcases and
\* passedTestcases, and passedTestcases is the number of Passed verdicts over
\* all N testcases.
C6_RedactionDoesNotAffectGrading ==
    /\ Reported =>
          /\ report.totalTestcases = Total
          /\ report.passedTestcases = CountPassed(verdicts)
    /\ Graded =>
          LET other == FinalReport(Replay(verdicts, ~showHiddenInputs),
                                   ~showHiddenInputs, Total)
          IN /\ report.status = other.status
             /\ report.message = other.message
             /\ report.totalTestcases = other.totalTestcases
             /\ report.passedTestcases = other.passedTestcases

\* redacted: hidden testcases pass and fail, and a visible one fails
C6_Witness ==
    /\ Graded
    /\ ~showHiddenInputs
    /\ Total = 5
    /\ NonPassed(verdicts) = {2, 5}
    /\ report.passedTestcases = 3

C8_CompileErrorHasDiagnostics ==
    (Reported /\ report.status = "CE") =>
        \E k \in 1..Len(report.compilationErrors) :
            report.compilationErrors[k].line > 0

\* C9: runTestcase returns Timeout whenever the child was killed by the
\* timeout or the elapsed time is >= TESTCASE_TIMEOUT_MS, whatever the exit
\* code and the output are: such a run is never Passed, Failed or Error.
C9_TimeoutTakesPrecedence ==
    (call.done /\ (call.p.term = "timeout"
                   \/ call.p.elapsed >= TESTCASE_TIMEOUT_MS)) =>
        /\ call.out.result.status = "Timeout"
        /\ call.out.result.executionTime = call.p.elapsed

\* exit 0 with the expected result, at exactly the budget
C9_Witness ==
    /\ call.done
    /\ call.p.term = "exit"
    /\ call.p.code = 0
    /\ call.p.stdout = <<Sep, Json("res:A")>>
    /\ call.p.elapsed = TESTCASE_TIMEOUT_MS
    /\ call.out.result.status = "Timeout"

\* the error text carries one of the signatures PythonExecutor looks for
HasSyntaxSignature(text) ==
    \/ IncludesWord(text, "SyntaxError")
    \/ IncludesWord(text, "IndentationError")
    \/ IncludesSolutionFile(text)

\* C10: PythonExecutor reports CE exactly when the first testcase ends with
\* verdict Error and an error text carrying a syntax-error signature; it then
\* stops at once (one harness run, no testcase results, 0 passed).  Otherwise
\* (Error without signature on testcase 0, any Error on a later testcase)
\* there is no CE and all N testcases are run.
C10_PythonCompileErrorOnlyOnFirst ==
    (lang = "python3" /\ Reported) =>
        /\ report.status = "CE" <=>
              /\ Len(verdicts) >= 1
              /\ verdicts[1].status = "Error"
              /\ HasSyntaxSignature(verdicts[1].errorMessage)
        /\ report.status = "CE" =>
              /\ harnessRuns = 1
              /\ Len(verdicts) = 1
              /\ report.testcaseResults = <<>>
              /\ report.passedTestcases = 0
              /\ report.totalTestcases = Total
        /\ report.status # "CE" =>
              /\ harnessRuns = Total
              /\ Len(verdicts) = Total

\* no CE although testcase 0 ended in Error and testcase 1 in an Error whose
\* text has a syntax-error signature
C10_Witness ==
    /\ lang = "python3"
    /\ Reported
    /\ Total = 3
    /\ Len(verdicts) = 3
    /\ verdicts[1].status = "Error"
    /\ verdicts[2].status = "Error"
    /\ HasSyntaxSignature(verdicts[2].errorMessage)
    /\ report.status = "RE"
    /\ harnessRuns = 3

\* ------------------------------------------------------------------ C11
\* the text that follows the first sentinel of stdout
AfterSentinel(stdout) ==
    LET k == IndexOfSeparator(stdout)
    IN SubSeq(stdout, k + 1, Len(stdout))

\* t is one JSON document, with nothing but whitespace around it
ValidJson(t) ==
    LET solid == SelectSeq(t, LAMBDA tok : tok.kind # "ws")
    IN /\ Len(solid) = 1
       /\ solid[1].kind = "json"
       /\ \A k \in 1..Len(t) :
             t[k].kind = "ws" =>
                \/ \A j \in 1..k : t[j].kind = "ws"
                \/ \A j \in k..Len(t) : t[j].kind = "ws"

\* C11: when the harness exits with code 0 within the time budget and the
\* text after the sentinel is not valid JSON, the verdict of the testcase is
\* Error and its errorMessage is 'Failed to parse output: ' followed by the
\* captured stdout; the verdict is never Passed or Failed.
C11_UnparseableOutputIsError ==
    ( /\ call.done
      /\ call.p.term = "exit"
      /\ call.p.code = 0
      /\ call.p.elapsed < TESTCASE_TIMEOUT_MS
      /\ IndexOfSeparator(call.p.stdout) # 0
      /\ ~ValidJson(AfterSentinel(call.p.stdout)) )
    => /\ call.out.result.status = "Error"
       /\ call.out.result.keys = {"errorMessage"}
       /\ call.out.result.errorMessage
             = <<Txt("Failed to parse output: ")>> \o call.p.stdout

\* a result document followed by more text after the sentinel
C11_Witness ==
    /\ call.done
    /\ call.p.term = "exit"
    /\ call.p.code = 0
    /\ call.p.elapsed = TESTCASE_TIMEOUT_MS - 1
    /\ call.p.stdout = <<Sep, Json("res:A"), Txt("debug")>>
    /\ call.out.result.status = "Error"
    /\ Head(call.out.result.errorMessage) = Txt("Failed to parse output: ")

\* ------------------------------------------------------------------ C12
\* C12: a testcase that fails never aborts the submission: in every grading
\* that does not end in CE the harness was run once for each of the N
\* testcases, in the order of the list, also after a testcase was classified
\* Timeout, Error or Failed, and totalTestcases = N.
C12_FailureDoesNotAbort ==
    Graded =>
        /\ harnessRuns = Total
        /\ Len(verdicts) = Total
        /\ \A k \in 1..Len(verdicts) :
              /\ verdicts[k].index = k
              /\ verdicts[k].input = testcases[k].input
              /\ verdicts[k].expected = testcases[k].output
        /\ report.totalTestcases = Total

\* a Timeout, then an Error, then a Failed, and two more runs after them
C12_Witness ==
    /\ Graded
    /\ Total = 5
    /\ Len(verdicts) = 5
    /\ verdicts[1].status = "Timeout"
    /\ verdicts[2].status = "Error"
    /\ verdicts[3].status = "Failed"
    /\ verdicts[5].status = "Passed"
    /\ harnessRuns = 5
    /\ report.totalTestcases = 5

\* ------------------------------------------------------------------ C13
GradingStatuses == {"AC", "WA", "CE", "RE", "TLE"}

\* the handler has answered the request
Answered == response # NoResponse

\* the body of the response is a report with one of the five statuses
AnsweredWithReport ==
    /\ response.code = 200
    /\ response.body.kind = "report"
    /\ response.body.status \in GradingStatuses

\* the body of the response is { error: ... } and carries no status
AnsweredWithError(code) ==
    /\ response.code = code
    /\ response.body.kind = "error"
    /\ response.body.status \notin GradingStatuses

\* C13 as stated: when creating the workspace or writing the solution, the
\* harness or the input file fails, executeCode rejects and the handler
\* answers HTTP 500 with a body without status; in every other case the
\* caller receives a report with one of the five statuses.
C13_ReportUnlessInfrastructureFailure ==
    /\ (pc = "done" /\ ioFailed # "none") => report = Rejected
    /\ Answered =>
          IF ioFailed # "none"
          THEN AnsweredWithError(500)
          ELSE AnsweredWithReport

\* C13 amended: a failure to create the workspace or to write the solution,
\* the harness or the input file makes executeCode reject, and the handler
\* answers HTTP 500 with a body without status; whenever the handler called
\* executeCode and none of these failed, the caller receives the report of
\* executeCode, with one of the five statuses.  A request for which
\* executeCode is not called is answered without a report as well: HTTP 400
\* for custom input that is not JSON, the same HTTP 500 body when the problem
\* cannot be loaded or the language has no executor.
C13_InfrastructureFailureIsNoVerdict ==
    /\ ioFailed # "none" =>
          /\ pc \in {"cleanup", "done"}
          /\ pc = "cleanup" => pending = Rejected
          /\ pc = "done" => report = Rejected
    /\ (pc = "done" /\ ioFailed = "none") =>
          report.kind = "report" /\ report.status \in GradingStatuses
    /\ Answered =>
          /\ pc \in {"done", "answered"}
          /\ (pc = "done" /\ ioFailed # "none") =>
                /\ AnsweredWithError(500)
                /\ response.body.message.head = FailureText(request.route)
          /\ (pc = "done" /\ ioFailed = "none") =>
                AnsweredWithReport /\ response.body = report
          /\ pc = "answered" =>
                /\ workspace = "none" /\ ioFailed = "none"
                /\ \/ AnsweredWithError(500)
                   \/ /\ AnsweredWithError(400)
                      /\ request.customInput = "invalid"
                /\ AnsweredWithError(500) =>
                      response.body.message.head = FailureText(request.route)

\* writing input.txt of the second testcase failed during a submit
C13_Witness ==
    /\ Answered
    /\ request.route = "submit"
    /\ ioFailed = "input.txt"
    /\ harnessRuns = 1
    /\ Len(verdicts) = 1
    /\ verdicts[1].status = "Passed"
    /\ AnsweredWithError(500)

\* ------------------------------------------------------------------ C14
\* call s is inside its try block: between the creation of its workspace and
\* the finally block
ConcRunning(s) ==
    subs[s].pc \in {"writeSolution", "writeRunner", "compile", "loop",
                    "exec", "running"}

\* the files call s has written when it is at its position
ConcWritten(s) ==
    (IF subs[s].pc # "writeSolution"
     THEN {SolutionFile(subs[s].lang)} ELSE {})
    \cup
    (IF subs[s].pc \in {"compile", "loop", "exec", "running"}
     THEN {RunnerFile(subs[s].lang)} ELSE {})
    \cup
    (IF subs[s].pc \in {"exec", "running"} \/ subs[s].i > 0
     THEN {"input.txt"} ELSE {})

\* C14: concurrent executeCode calls cannot collide: each call has its own
\* workspace directory, every harness run finds in input.txt what its own
\* call wrote for its current testcase, and the cleanup of one call never
\* removes files of another call that is still running.
C14_NoCollision ==
    /\ \A s, t \in Subs :
          (s # t /\ subs[s].dir # 0) => subs[s].dir # subs[t].dir
    /\ \A s \in Subs :
          subs[s].pc = "running" => subs[s].read = <<s, subs[s].i + 1>>
    /\ \A s \in Subs :
          ConcRunning(s) =>
             /\ disk[subs[s].dir].exists
             /\ ConcWritten(s) \subseteq disk[subs[s].dir].files
             /\ subs[s].pc = "exec" =>
                   disk[subs[s].dir].input = <<s, subs[s].i + 1>>

\* the first call has removed its workspace while the harness of the second
\* call runs on its second testcase
C14_Witness ==
    /\ subs[1].pc = "done"
    /\ subs[1].dir # 0
    /\ disk[subs[1].dir] = NoDir
    /\ subs[2].pc = "running"
    /\ subs[2].i = 1
    /\ subs[2].read = <<2, 2>>

\* ------------------------------------------------------------------ C15
\* subprocesses of this executeCode call whose executeCommand call has not
\* resolved: javac commands and harness commands
Live ==
    (compileRuns - (IF javac # "none" THEN 1 ELSE 0))
    + (harnessRuns - Len(verdicts))

\* C15: within one executeCode call at most one compiler / interpreter
\* subprocess is started and not yet completed at any time; input.txt of the
\* next testcase is written and its harness started only after the run
\* before it completed and its verdict was recorded; the first testcase of a
\* Java grading starts only after the compile step completed.
C15_OneSubprocessAtATime ==
    /\ Live + orphans <= 1
    /\ Live = 1 <=> pc \in {"compiling", "running"}
    /\ pc = "running" =>
          /\ Len(verdicts) = i
          /\ harnessRuns = i + 1
    /\ pc = "compiling" => harnessRuns = 0 /\ "input.txt" \notin files
    /\ (lang = "java" /\ (harnessRuns > 0 \/ "input.txt" \in files)) =>
          compileRuns = 1 /\ javac = "ok"

\* ------------------------------------------------------------------ C16
\* C16: when a subprocess does not exit within its timeout, executeCommand
\* terminates it: once executeCommand has resolved with the timeout result,
\* neither the shell nor the compiler / harness process it started is
\* running.
C16_NothingRunsAfterTimeout ==
    orphans = 0

\* ------------------------------------------------------------------ C17
\* C17: executeCommand reports the timed-out outcome (exitCode -1) only when
\* the process was killed because the timeout expired; in every other case
\* the outcome follows the exit code (0 success, non-zero failure) with the
\* captured output, and a process that wrote more than MAX_OUTPUT_LENGTH is
\* not reported as timed out and keeps its output as captured up to the cap.
C17_TimedOutOnlyWhenTimeoutExpired ==
    call.done =>
        LET outcome == executeCommand(call.p)
        IN /\ outcome.exitCode = -1 => call.p.term = "timeout"
           /\ call.p.term = "exit" =>
                 /\ outcome.exitCode = call.p.code
                 /\ outcome.stdout = call.p.stdout
                 /\ outcome.stderr = call.p.stderr
           /\ call.p.term = "maxbuf" =>
                 /\ outcome.exitCode \notin {0, -1}
                 /\ outcome.stdout = call.p.stdout

\* ------------------------------------------------------------------ C18
\* C18: no retries: during one executeCode call the compile command is
\* started at most once and the harness exactly once for each executed
\* testcase; a failed compile, a non-zero exit or a timeout never starts the
\* same step again.
C18_NoRetries ==
    /\ compileRuns <= 1
    /\ lang = "python3" => compileRuns = 0
    /\ javac = "failed" => harnessRuns = 0 /\ pc \in {"cleanup", "done"}
    /\ harnessRuns = Len(verdicts) + (IF pc = "running" THEN 1 ELSE 0)
    /\ harnessRuns <= Total
    /\ \A k \in 1..Len(verdicts) :
          /\ verdicts[k].index = k
          /\ verdicts[k].input = testcases[k].input
    /\ Reported =>
          harnessRuns = Len(verdicts) /\ report.totalTestcases = Total

\* a Java grading that ended after a non-zero exit and a timeout: one javac
\* run and one harness run for each of the two testcases
C18_Witness ==
    /\ Reported
    /\ lang = "java"
    /\ Total = 2
    /\ compileRuns = 1
    /\ harnessRuns = 2
    /\ Len(verdicts) = 2
    /\ verdicts[1].status = "Error"
    /\ verdicts[2].status = "Timeout"

\* ------------------------------------------------------------------ C19
\* C19: a harness that ended because decoding the input, calling the
\* submitted function or encoding the result threw has a non-zero exit
\* status and text on stderr, and its stdout holds no sentinel
C19_ExceptionLeavesNoSentinel ==
    (harness.pc = "exited" /\ harness.threw \in {"decode", "call", "encode"})
        => /\ harness.exitCode # 0
           /\ harness.stderr # <<>>
           /\ IndexOfSeparator(harness.stdout) = 0

\* ------------------------------------------------------------------ C20
\* a type string the generator's tables have a row for
InTable(typeStr) == getParseCode("x", mapTypeToJava(typeStr)).decode # "none"

NamesUnsupportedType(metadata) ==
    \/ ~InTable(ReturnTypeOf(metadata))
    \/ \E k \in 1..Len(ParamsOf(metadata)) :
          ~InTable(ParamsOf(metadata)[k].type)

\* C20: for metadata naming a type outside the tables, generation ends in
\* an 'unsupported type' refusal: no harness file is written and no
\* subprocess is started
C20_UnsupportedTypeFailsFast ==
    (NamesUnsupportedType(harness.metadata) /\ harness.pc # "generate")
        => /\ harness.pc = "refused"
           /\ ~harness.written
           /\ harness.started = 0

\* ------------------------------------------------------------------ C21
\* C21: a value that was encoded by the generated serializer and decoded by
\* the generated parser and converter of the same type comes back equal
C21_CodecRoundTrip ==
    codec.pc = "decoded"
        => /\ ~codec.decoded.threw
           /\ codec.decoded.v = codec.value

\* ------------------------------------------------------------------ C22
\* the generated source binds exactly the parameters of params, in that
\* order, and passes them in that order to the function called fn
BindsAndCalls(source, fn, params) ==
    /\ source.functionName = fn
    /\ Len(source.parseLines) = Len(params)
    /\ Len(source.argsList) = Len(params)
    /\ \A k \in 1..Len(params) :
          /\ source.parseLines[k].name = params[k].name
          /\ source.argsList[k] = params[k].name

\* C22: the generated harness is a program that, without metadata, decodes
\* the one parameter nums as int[], calls sortArray(nums) and returns
\* int[], and with metadata decodes every declared parameter and passes
\* them to the named function in declared order
C22_HarnessFollowsMetadata ==
    harness.pc \notin {"none", "generate"}
        => /\ Parses(harness.lang, harness.source)
           /\ IF harness.metadata.present
              THEN BindsAndCalls(harness.source,
                                 harness.metadata.functionName,
                                 harness.metadata.params)
              ELSE /\ BindsAndCalls(harness.source, "sortArray",
                                    <<[name |-> "nums", type |-> "int[]"]>>)
                   /\ harness.lang = "java"
                         => /\ harness.source.parseLines[1].type = "int[]"
                            /\ harness.source.parseLines[1].decode
                                  = "toIntArray"
                            /\ harness.source.returnType = "int[]"
                            /\ harness.source.serializeExpr = "arrayToJson"

\* ------------------------------------------------------------------ C23
\* deep structural equality of two JS values: the same kind, the same scalar,
\* and for arrays the same length and equal elements position by position
RECURSIVE DeepEqual(_, _)
DeepEqual(a, b) ==
    /\ a.t = b.t
    /\ a.n = b.n
    /\ a.s = b.s
    /\ Len(a.items) = Len(b.items)
    /\ \A k \in 1..Len(a.items) : DeepEqual(a.items[k], b.items[k])

\* the run exited with 0 inside the time limit and printed a result
PrintedResult ==
    /\ call.done
    /\ call.p.term = "exit"
    /\ call.p.code = 0
    /\ call.p.elapsed < TESTCASE_TIMEOUT_MS
    /\ JsonParse(AfterSentinel(call.p.stdout)).ok
    /\ ResultMember(JsonParse(AfterSentinel(call.p.stdout)).doc)
          \in ValueNames

ExitedNonZero ==
    /\ call.done
    /\ call.p.term = "exit"
    /\ call.p.code # 0
    /\ call.p.elapsed < TESTCASE_TIMEOUT_MS

\* C24: a harness that exited with a non-zero code inside the time limit
\* gives the verdict Error with the captured stderr as errorMessage, or
\* 'Runtime error' when stderr is empty, whatever stdout holds
C24_NonZeroExitIsError ==
    ExitedNonZero
        => /\ call.out.result.status = "Error"
           /\ call.out.result.keys = {"errorMessage"}
           /\ call.out.result.errorMessage =
                 IF call.p.stderr # <<>> THEN call.p.stderr
                 ELSE <<Txt("Runtime error")>>

C24_Witness ==
    /\ ExitedNonZero
    /\ call.p.stdout = <<Txt("debug"), Sep, Json("res:A")>>
    /\ call.tc.output = "A"
    /\ call.p.stderr = <<>>
    /\ call.out.result.status = "Error"


\* ------------------------------------------------------------------ C25
IsPrefix(a, b) == Len(a) <= Len(b) /\ SubSeq(b, 1, Len(a)) = a

\* every listed result is the verdict recorded for the testcase it names
ListedAsRecorded(res, vs) ==
    \A k \in 1..Len(res) :
        /\ res[k].index \in 1..Len(vs)
        /\ res[k] = vs[res[k].index]

\* what one step of executeCode leaves alone
KeepsEarlierRecords ==
    /\ IsPrefix(verdicts, verdicts')
    /\ IsPrefix(results, results')
    /\ passed' \in {passed, passed + 1}
    /\ firstFailure # NullResult => firstFailure' = firstFailure
    /\ firstHiddenFailure # NullResult =>
          firstHiddenFailure' = firstHiddenFailure
    /\ (pc = "running" /\ pc' = "loop") =>
          /\ Len(verdicts') = Len(verdicts) + 1
          /\ passed' = passed + 1 <=>
                verdicts'[Len(verdicts')].status = "Passed"
    /\ (pc = "running" /\ pc' # "running") => orphans' >= orphans

\* the final report holds the records as they were made
ReportHoldsRecords ==
    Graded =>
        /\ report.testcaseResults = results
        /\ ListedAsRecorded(results, verdicts)
        /\ report.passedTestcases = passed
        /\ passed = CountPassed(verdicts)
        /\ firstFailure = IF NonPassed(verdicts) = {} THEN NullResult
                          ELSE verdicts[FirstNonPassed(verdicts)]

\* C25: processing testcase i changes nothing that was recorded for the
\* testcases before it: each step only appends to the verdicts and to the
\* listed results, adds at most the current testcase's pass to the count,
\* keeps a firstFailure (and firstHiddenFailure) once chosen, and the end of
\* the run of testcase i, a timeout included, ends no process of an earlier
\* testcase; the final report lists the verdicts as recorded, with the pass
\* count and the first failure they give.
C25_EarlierRecordsUnchanged ==
    [][KeepsEarlierRecords]_vars /\ []ReportHoldsRecords

\* a pass and a failure were recorded, then testcase 3 timed out
C25_Witness ==
    /\ Graded
    /\ Total = 3
    /\ verdicts[1].status = "Passed"
    /\ verdicts[2].status = "Failed"
    /\ verdicts[3].status = "Timeout"
    /\ report.status = "WA"
    /\ report.passedTestcases = 1
    /\ Len(report.testcaseResults) = 3


\* ------------------------------------------------------------------ C26
\* the steps of executeCode up to the release, in the order of the code
OrderOfSteps ==
    /\ pc \in {"writeSolution", "writeRunner", "compile", "compiling", "loop",
               "running", "cleanup"} => workspace = "exists"
    /\ files # {} => workspace = "exists"
    /\ RunnerFile(lang) \in files => SolutionFile(lang) \in files
    /\ "input.txt" \in files => RunnerFile(lang) \in files
    /\ (compileRuns > 0 /\ cleanupCalls = 0) =>
          {SolutionFile(lang), RunnerFile(lang)} \subseteq files
    /\ (harnessRuns > 0 /\ cleanupCalls = 0) =>
          {SolutionFile(lang), RunnerFile(lang), "input.txt"} \subseteq files
    /\ compileRuns > 0 => lang = "java"
    /\ (lang = "java" /\ harnessRuns > 0) => compileRuns = 1 /\ javac = "ok"
    /\ lang = "python3" => compileRuns = 0
    /\ harnessRuns \in {Len(verdicts), Len(verdicts) + 1}
    /\ \A k \in 1..Len(verdicts) : verdicts[k].index = k
    /\ cleanupCalls <= 1
    /\ cleanupCalls = 1 <=> pc = "done" /\ ioFailed # "mkdir"
    /\ cleanupCalls = 1 => Live = 0

\* C26: every executeCode call allocates the workspace, writes the user
\* source and then the harness, (Java only) compiles, runs the testcases in
\* order and releases the workspace: no file is written before the workspace
\* exists, no Java harness run starts before a successful compile, Python
\* starts no subprocess before the harness run of testcase 0, and when the
\* workspace is released no subprocess of the submission is still running.
C26_ExecuteCodeOrder ==
    /\ OrderOfSteps
    /\ cleanupCalls = 1 => orphans = 0


\* ------------------------------------------------------------------ C27
RECURSIVE SplitLines(_)
\* the lines of a text, without their terminators
SplitLines(t) ==
    IF \E k \in 1..Len(t) : t[k].kind = "nl"
    THEN LET k == CHOOSE k \in 1..Len(t) :
                      /\ t[k].kind = "nl"
                      /\ \A j \in 1..(k - 1) : t[j].kind # "nl"
         IN <<SubSeq(t, 1, k - 1)>> \o SplitLines(SubSeq(t, k + 1, Len(t)))
    ELSE <<t>>

\* <file>.java:<line>: (error|warning): <message> read on one line l: the
\* pairs of the end of <file>.java and the place of the keyword
DiagnosticForms(l) ==
    {fq \in (1..Len(l)) \X (1..Len(l)) :
        LET f == fq[1]
            q == fq[2]
        IN /\ l[f].kind = "jfile"
           /\ f + 3 <= Len(l)
           /\ l[f + 1].kind = "colon"
           /\ l[f + 2].kind = "num"
           /\ l[f + 3].kind = "colon"
           /\ q >= f + 4
           /\ \A k \in (f + 4)..(q - 1) : l[k].kind = "ws"
           /\ l[q].kind = "kw"
           /\ q + 2 <= Len(l)
           /\ l[q + 1].kind = "colon"}

\* the record the claim gives for a line of the form
DiagnosticOfLine(l) ==
    LET fq == CHOOSE fq \in DiagnosticForms(l) :
                  \A other \in DiagnosticForms(l) : fq[1] <= other[1]
    IN [file |-> FileName(SubSeq(l, 1, fq[1])), line |-> l[fq[1] + 2].line,
        column |-> 1, severity |-> l[fq[2]].s,
        message |-> Trim(SubSeq(l, fq[2] + 2, Len(l)))]

RECURSIVE DiagnosticsOfLines(_)
DiagnosticsOfLines(ls) ==
    IF ls = <<>> THEN <<>>
    ELSE (IF DiagnosticForms(Head(ls)) # {}
          THEN <<DiagnosticOfLine(Head(ls))>> ELSE <<>>)
         \o DiagnosticsOfLines(Tail(ls))

\* C27: parseJavaCompilationErrors returns, in the order of the input lines,
\* exactly one record per stderr line of the form
\* <file>.java:<line>: (error|warning): <message> and no record for any other
\* line; the record has the base name of the file, the parsed line number,
\* column 1, the matched keyword as severity and the trimmed rest of the
\* line as message.
C27_OneRecordPerDiagnosticLine ==
    diag.done => diag.errors = DiagnosticsOfLines(SplitLines(diag.text))


\* ------------------------------------------------------------------ C28
\* a File "<name>", line <n> marker in the text
HasFileMarker(t) == \E k \in 1..Len(t) : t[k].kind = "pyfile"

\* a line <keyword>: <message> with a known error-class keyword in the text
HasKeywordLine(t) ==
    \E k \in 1..Len(t) : t[k].kind = "pyerr" /\ t[k].s \in PyErrorKeywords

\* C28: parsePythonSyntaxErrors produces a structured diagnostic only for a
\* File "<name>", line <n> marker that is paired with a line of a known
\* error class (SyntaxError, IndentationError, NameError, TypeError) in the
\* same text: a text without marker, or with a marker and no such line,
\* gives no structured diagnostic.
C28_DiagnosticNeedsMarkerAndKeyword ==
    (Reported /\ lang = "python3" /\ report.status = "CE") =>
        LET text == verdicts[1].errorMessage
        IN report.compilationErrors # <<>> =>
              HasFileMarker(text) /\ HasKeywordLine(text)


\* ------------------------------------------------------------------ C29
RECURSIVE SectionsFrom(_, _)
\* one labelled section per testcase from k on whose run gave debug text
SectionsFrom(texts, k) ==
    IF k > Len(texts) THEN <<>>
    ELSE (IF texts[k] # <<>> THEN <<[label |-> k, text |-> texts[k]]>>
          ELSE <<>>)
         \o SectionsFrom(texts, k + 1)

ListedIndices(result) ==
    {result.testcaseResults[k].index : k \in 1..Len(result.testcaseResults)}

\* the testcases whose run printed something of the shown section
PrintedBy(section) ==
    {testcases[k].input : k \in 1..Len(testcases)}
        \cap {section[k].line : k \in {j \in 1..Len(section) :
                                          section[j].kind = "text"}}

\* C30: ResultPanel shows a debug section for testcase k only if the
\* report's testcaseResults holds a verdict with index k whose status is not
\* Passed; so no debug text of a testcase whose verdict was withheld is
\* shown, and nothing is shown when the status is AC.
C30_DebugOnlyOfListedFailures ==
    panel.rendered =>
        /\ response.body.status = "AC" => panel.debug = <<>>
        /\ \A n \in 1..Len(panel.debug) :
              LET section == panel.debug[n]
              IN /\ Head(section).kind = "label"
                 /\ Head(section).line \in FailingIndices(response.body)
                 /\ \A input \in PrintedBy(section) :
                       \E k \in ListedIndices(response.body) :
                           testcases[k].input = input


\* ------------------------------------------------------------------ C31
\* the javac children that the compile timeout ended
KilledCompiles == {p \in CompileOutcomes : ErrorKilled(p)}

\* what executeCode returns for a compile that ran out of time
CompileTimeoutReport ==
    [kind |-> "report", status |-> "CE",
     message |-> Msg("", 0, <<Txt("Time Limit Exceeded")>>),
     testcaseResults |-> <<>>, totalTestcases |-> Total,
     passedTestcases |-> 0, compilationErrors |-> <<>>, debugOutput |-> <<>>]

\* the report in hand (held for the finally block, or delivered) is the one
\* of a compile that ran out of time
CompileTimedOut ==
    /\ lang = "java"
    /\ javac = "failed"
    /\ \/ pc = "cleanup" /\ pending.kind = "report"
                          /\ pending.message.detail = TimeLimitText
       \/ pc = "done" /\ report.kind = "report"
                       /\ report.message.detail = TimeLimitText

\* C31: a javac killed by the compile timeout makes compile() fail with the
\* text 'Time Limit Exceeded'; executeCode returns status CE (not TLE) with
\* that message, no testcaseResults and no compilationErrors, and no
\* testcase is run.
C31_CompileTimeoutIsCompileError ==
    /\ pc = "compiling" =>
          /\ KilledCompiles # {}
          /\ \A p \in KilledCompiles :
                /\ ~compile(p).success
                /\ JavaCompileErrorReport(compile(p), Total)
                      = CompileTimeoutReport
    /\ CompileTimedOut =>
          /\ harnessRuns = 0
          /\ verdicts = <<>>
          /\ i = 0
          /\ pc = "cleanup" => pending = CompileTimeoutReport
          /\ pc = "done" => report = CompileTimeoutReport

C31_Witness ==
    /\ CompileTimedOut
    /\ pc = "done"
    /\ Total = 3
    /\ report.status = "CE"
    /\ report.compilationErrors = <<>>


\* ------------------------------------------------------------------ C32
\* what the command of the call resolved with
Resolved == executeCommand(call.p)

\* the positions of the sentinel in stdout
SentinelAt == {k \in 1..Len(Resolved.stdout) : Resolved.stdout[k].kind = "sep"}

\* the harness exited with 0 inside the budget
ExitedInTime ==
    Resolved.exitCode = 0 /\ call.p.elapsed < TESTCASE_TIMEOUT_MS

\* stdout before and after position k
TextBefore(k) == SubSeq(Resolved.stdout, 1, k - 1)

TextAfter(k) == SubSeq(Resolved.stdout, k + 1, Len(Resolved.stdout))

\* the text is one JSON document whose result member is the expected output
IsExpectedDocument(t) ==
    /\ Len(Trim(t)) = 1
    /\ Trim(t)[1] = Json("res:" \o call.tc.output)

\* C32: runTestcase splits stdout at the first sentinel: debugOutput is the
\* trimmed text before it and holds no sentinel, the result text is all that
\* follows it, a later sentinel included; so a run that exits 0 in time with
\* the sentinel printed twice gets Error (parse failure), never Passed.
C32_SplitAtFirstSentinel ==
    (call.done /\ SentinelAt # {}) =>
        LET first == CHOOSE k \in SentinelAt : \A j \in SentinelAt : k <= j
        IN /\ call.out.debugOutput = Trim(TextBefore(first))
           /\ \A k \in 1..Len(call.out.debugOutput) :
                 call.out.debugOutput[k].kind # "sep"
           /\ ExitedInTime =>
                 /\ call.out.result.status = "Passed"
                       <=> IsExpectedDocument(TextAfter(first))
                 /\ Cardinality(SentinelAt) >= 2 =>
                       /\ call.out.result.status = "Error"
                       /\ call.out.result.errorMessage
                             = <<Txt("Failed to parse output: ")>>
                                  \o Resolved.stdout

C32_Witness ==
    /\ call.done
    /\ ExitedInTime
    /\ Resolved.stdout = <<Sep, Sep, Json("res:" \o call.tc.output)>>
    /\ call.out.result.status = "Error"
    /\ call.out.debugOutput = <<>>


\* ------------------------------------------------------------------ C33
\* C33: when stdout holds no sentinel, runTestcase takes all of stdout as
\* the result text and the debug output is empty; a run that exits 0 in time
\* and printed nothing but a JSON object with the expected result is Passed.
C33_NoSentinelWholeStdoutIsResult ==
    (call.done /\ SentinelAt = {}) =>
        /\ call.out.debugOutput = <<>>
        /\ ExitedInTime =>
              /\ call.out.result.status = "Passed"
                    <=> IsExpectedDocument(Resolved.stdout)
              /\ call.out.result.status = "Error"
                    <=> \/ ~JsonParse(Resolved.stdout).ok
                        \/ JsonParse(Resolved.stdout).doc = "null"
              /\ Resolved.stdout = <<Json("res:" \o call.tc.output)>>
                    => /\ call.out.result.status = "Passed"
                       /\ call.out.result.actual = call.tc.output

C33_Witness ==
    /\ call.done
    /\ ExitedInTime
    /\ Resolved.stdout = <<Json("res:" \o call.tc.output)>>
    /\ call.out.result.status = "Passed"
    /\ call.out.debugOutput = <<>>


\* ------------------------------------------------------------------ C34
\* the result text of the call: what follows the first sentinel, or all of
\* stdout when there is none
ResultText ==
    IF SentinelAt = {} THEN Resolved.stdout
    ELSE TextAfter(CHOOSE k \in SentinelAt : \A j \in SentinelAt : k <= j)

\* the result text is one JSON document, surrounded by whitespace at most
IsDocument(t) == Len(Trim(t)) = 1 /\ Trim(t)[1].kind = "json"

\* C34: for a run that exits 0 in time, a result text that is a JSON object,
\* array, number, string or boolean without a result member gives Failed
\* with actual undefined (the expected output being defined), not Error;
\* Error is given only for the value null and for text that does not parse.
C34_MissingResultIsFailed ==
    /\ \A expected \in ValueNames : ~compareOutputs(expected, "undefined")
    /\ (call.done /\ ExitedInTime) =>
          /\ (IsDocument(ResultText) /\ Trim(ResultText)[1].s \in BareDocuments)
                => /\ call.out.result.status = "Failed"
                   /\ call.out.result.actual = "undefined"
                   /\ call.out.result.keys = {"actual"}
          /\ call.out.result.status = "Error"
                <=> \/ ~IsDocument(ResultText)
                    \/ Trim(ResultText)[1].s = "null"

C34_Witness ==
    /\ call.done
    /\ ExitedInTime
    /\ Resolved.stdout = <<Sep, Json("arr"), Ws>>
    /\ call.out.result.status = "Failed"
    /\ call.out.result.actual = "undefined"


\* ------------------------------------------------------------------ C35
\* the testcase was read from testcases_hidden.json
FromHiddenFile(tc) == tc.input > MaxTests

\* the testcases (1-based) the report lists with input and expected,
\* as they are in the list handed to executeCode
DisclosedInFull ==
    {k \in 1..Total :
        \E n \in 1..Len(report.testcaseResults) :
            /\ report.testcaseResults[n].index = k
            /\ report.testcaseResults[n].input = testcases[k].input
            /\ report.testcaseResults[n].expected = testcases[k].output}

\* the testcases behind the third whose verdict is not Passed
NonPassedBehindThird ==
    {k \in (HiddenThreshold + 1)..Total : verdicts[k].status # "Passed"}

RECURSIVE ReplayRuns(_, _, _)
ReplayRuns(vs, texts, flag) ==
    IF vs = <<>>
    THEN LoopState(<<>>, <<>>, 0, NullResult, NullResult)
    ELSE LoopBody(ReplayRuns(SubSeq(vs, 1, Len(vs) - 1),
                             SubSeq(texts, 1, Len(vs) - 1), flag),
                  Len(vs) - 1, flag,
                  [result |-> vs[Len(vs)], debugOutput |-> texts[Len(vs)]])

\* the debug sections the loop collects for these runs under the given
\* flag, which the report carries as debugOutput
DebugOutputUnder(flag) == ReplayRuns(verdicts, debugTexts, flag).debugOutputs

\* the testcases whose debug section the body holds though their verdict is
\* not listed in it
WithheldWithDebug(body) ==
    {body.debugOutput[n].label : n \in 1..Len(body.debugOutput)}
        \ ListedIndices(body)

\* the try block returned the report of a grading; the finally block has
\* not run yet
GradedPending ==
    pc = "cleanup" /\ pending.kind = "report" /\ pending.status # "CE"

\* C36: the debugOutput of the report is the same for both values of
\* showHiddenInputs; with showHiddenInputs = false it holds the labelled
\* section of every testcase at position >= 3 that printed debug text,
\* listed or not, and the /submit response carries it unchanged.
C36_DebugOutputNotRedacted ==
    /\ GradedPending =>
          /\ pending.debugOutput = DebugOutputUnder(TRUE)
          /\ pending.debugOutput = DebugOutputUnder(FALSE)
          /\ \A k \in 1..Total :
                debugTexts[k] # <<>> =>
                    \E n \in 1..Len(pending.debugOutput) :
                        /\ pending.debugOutput[n].label = k
                        /\ pending.debugOutput[n].text = debugTexts[k]
    /\ Graded => report.debugOutput = pending.debugOutput
    /\ (pc = "done" /\ response.code = 200) =>
          response.body.debugOutput = report.debugOutput

\* /submit answered: testcase 5 printed debug text, its verdict is withheld
C36_Witness ==
    /\ pc = "done"
    /\ report.status # "CE"
    /\ request.route = "submit"
    /\ ~showHiddenInputs
    /\ response.code = 200
    /\ Total = 5
    /\ verdicts[4].status # "Passed"
    /\ debugTexts[5] # <<>>
    /\ 5 \in WithheldWithDebug(response.body)


\* ------------------------------------------------------------------ C37
\* the ways the next testcase can end, as runTestcase returns them
NextRuns ==
    IF i < Total
    THEN {runTestcase(testcases[i + 1], p) :
            p \in HarnessOutcomes(lang, testcases[i + 1])}
    ELSE {}

\* C37: for the same flag, verdicts and debug texts, the Java executor (its
\* compile having succeeded) and the Python executor (its first-testcase CE
\* rule not firing) return reports with equal status, message,
\* testcaseResults, totalTestcases, passedTestcases and debugOutput: from
\* every state of the loop both loop bodies lead to the same locals, and
\* past the loop both build the same report from them.
C37_ExecutorsAggregateAlike ==
    (pc = "loop") =>
        /\ \A rt \in NextRuns : \A flag \in BOOLEAN :
              LoopBody(Locals, i, flag, rt)
                  = PythonLoopBody(Locals, i, flag, rt)
        /\ i = Total =>
              \A flag \in BOOLEAN :
                  LET java == FinalReport(Locals, flag, Total)
                      python == PythonFinalReport(Locals, flag, Total)
                  IN /\ java.status = python.status
                     /\ java.message = python.message
                     /\ java.testcaseResults = python.testcaseResults
                     /\ java.totalTestcases = python.totalTestcases
                     /\ java.passedTestcases = python.passedTestcases
                     /\ java.debugOutput = python.debugOutput

\* a Python grading with redaction, a hidden failure and debug text, at the
\* end of the loop
C37_Witness ==
    /\ pc = "loop"
    /\ lang = "python3"
    /\ ~showHiddenInputs
    /\ i = 5
    /\ Total = 5
    /\ NonPassed(verdicts) = {2, 5}
    /\ debugOutputs # <<>>
    /\ Len(PythonFinalReport(Locals, showHiddenInputs, Total).testcaseResults)
          = 4


\* ------------------------------------------------------------------ C38
\* executeCode settled after its finally block ran; the route handler has
\* not answered yet
SettledAfterCleanup ==
    pc = "done" /\ cleanupCalls > 0 /\ response = NoResponse

\* C38: cleanupWorkspace never throws: whether or not fs.rm failed,
\* executeCode delivers what the try block completed with, unchanged in
\* every field: the report it returned, or the rejection when a write threw.
C38_CleanupFailureIsOnlyLogged ==
    SettledAfterCleanup =>
        /\ report = pending
        /\ report.kind = "rejected" <=> ioFailed # "none"
        /\ report.kind = "report" <=> ioFailed = "none"
        /\ Graded =>
              /\ report.status = Overall(Locals, Total).status
              /\ report.message = Overall(Locals, Total).message
              /\ report.testcaseResults = results
              /\ report.passedTestcases = passed
              /\ report.totalTestcases = Total
              /\ report.debugOutput = debugOutputs
        /\ (Reported /\ report.status = "CE") =>
              /\ report.testcaseResults = <<>>
              /\ report.passedTestcases = 0
              /\ report.totalTestcases = Total

\* fs.rm failed after a grading with a wrong answer
C38_Witness ==
    /\ SettledAfterCleanup
    /\ rmFailed
    /\ workspace = "exists"
    /\ report.kind = "report"
    /\ report.status = "WA"
    /\ Total = 3
    /\ report.passedTestcases = 2


\* ------------------------------------------------------------------ C39
\* the loop is at its test or inside runTestcase: i testcases are processed
InLoop == pc \in {"loop", "running"}

\* the processed testcases (1-based) whose verdict is not Passed
FailedSoFar == {k \in 1..Len(verdicts) : verdicts[k].status # "Passed"}

\* C39: after i testcases, passed is the number of Passed verdicts among
\* them (0 <= passed <= i); firstFailure is unset exactly when passed = i
\* and otherwise is the verdict of the first failed testcase, so it is
\* never reassigned; firstHiddenFailure is set only when firstFailure is
\* set, and then is the verdict of a testcase at position >= 3.
C39_LoopInvariant ==
    InLoop =>
        /\ Len(verdicts) = i
        /\ passed = Cardinality(1..i \ FailedSoFar)
        /\ 0 <= passed /\ passed <= i
        /\ firstFailure = NullResult <=> passed = i
        /\ firstFailure # NullResult =>
              /\ firstFailure.index \in FailedSoFar
              /\ \A k \in FailedSoFar : firstFailure.index <= k
              /\ firstFailure = verdicts[firstFailure.index]
        /\ firstHiddenFailure # NullResult =>
              /\ firstFailure # NullResult
              /\ ~showHiddenInputs
              /\ firstHiddenFailure.index - 1 >= HiddenThreshold
              /\ firstHiddenFailure.index \in FailedSoFar
              /\ firstHiddenFailure = verdicts[firstHiddenFailure.index]

\* five testcases processed with redaction: the second and the fifth failed
C39_Witness ==
    /\ pc = "loop"
    /\ i = 5
    /\ ~showHiddenInputs
    /\ passed = 3
    /\ firstFailure.index = 2
    /\ firstHiddenFailure.index = 5

====
